---- MODULE Spec2Model ----
(***************************************************************************)
(* State-machine model of the streaming VCF parser of scikit-allel,       *)
(* src/allel/opt/io_vcf_read.pyx (the revision that starts at line 947:   *)
(* iter_vcf with ParserContext, chunk_length and typed sub-parsers).      *)
(*                                                                         *)
(* Bytes are their ASCII codes, so the end-of-stream sentinel is the      *)
(* number 0 exactly as in the code.  A machine record M carries what the  *)
(* parsing functions read and write: the file position, the              *)
(* ParserContext, the parsers' in-progress arrays, the warnings and a     *)
(* fault marker for a loop that cannot end, an out-of-bounds scratch      *)
(* write or a raised IndexError.                                           *)
(***************************************************************************)
EXTENDS Integers, Sequences, FiniteSets, TLC

VARIABLES
    config,     \* arguments of iter_vcf after the parser setup (constant in a run)
    data,       \* bytes the input_file delivers (constant in a run)
    file_pos,   \* bytes of data already handed out by input_file.readinto
    context,    \* ParserContext
    values,     \* every parser's in-progress array (Parser.values / memory)
    chunks,     \* the list `chunks` of iter_vcf
    warnings,   \* warnings.warn calls so far: <<message, variant_index>>
    ub,         \* TRUE once a write has gone past the scratch buffer
    pc,         \* "loop", "done", "hung", "crashed" or "raised"
    calls,      \* the caller: the streams of its later calls of iter_vcf, and
                \* the chunks its earlier calls returned
    peer        \* a second call of iter_vcf in another thread, while it does
                \* not run: <<>> or one record of its state

vars == <<config, data, file_pos, context, values, chunks, warnings, ub, pc, calls, peer>>

\* ------------------------------------------------------------------ bytes
TAB == 9
NEWLINE == 10
COLON == 58
SEMICOLON == 59
PERIOD == 46
COMMA == 44
SLASH == 47
PIPE == 124
EQUALS == 61

\* a C pointer that is NULL; offsets into a buffer are 0, 1, ...
NULL == -1

\* enum ParserState
CHROM == 0
POS == 1
ID == 2
REF == 3
ALT == 4
QUAL == 5
FILTER == 6
INFO == 7
FORMAT == 8
CALLDATA == 9

Min(a, b) == IF a < b THEN a ELSE b

\* ------------------------------------------------------------------ machine
\* The record the parsing functions thread through their loops.
Machine(cfg, d, fp, ctx, val, warns, u) ==
    [cfg |-> cfg, data |-> d, file_pos |-> fp, ctx |-> ctx, val |-> val,
     warnings |-> warns, ub |-> u, fault |-> "none"]

Faulted(M) == M.fault # "none"

Fault(M, f) == IF Faulted(M) THEN M ELSE [M EXCEPT !.fault = f]

\* warnings.warn(message) with the current variant index.
warn(M, message) ==
    [M EXCEPT !.warnings = Append(@, <<message, M.ctx.variant_index>>)]

\* ------------------------------------------------------------------ input
\* input_file.readinto(input_buffer): 0 at end of file, otherwise at least one
\* byte and at most as many as fit.  The file hands its bytes out in pieces that end at the places cfg.cuts and
\* at the end of the file: a read never goes past the end of its piece.
PieceEnd(cuts, pos, end) ==
    IF \E c \in cuts : c > pos /\ c < end
    THEN CHOOSE c \in cuts : c > pos /\ c < end /\ \A d \in cuts : d > pos => c <= d
    ELSE end

readinto(M) ==
    Min(M.cfg.input_buffer_size, PieceEnd(M.cfg.cuts, M.file_pos, Len(M.data)) - M.file_pos)

\* The bytes of a read are written over the start of the buffer; what the
\* buffer held behind them stays.
Overwrite(buffer, bytes) ==
    [i \in 1..Len(buffer) |-> IF i <= Len(bytes) THEN bytes[i] ELSE buffer[i]]

\* context_fill_buffer taking every read to fill the whole buffer.
context_fill_buffer_full(M) ==
    LET fill(l) ==
            IF l > 0
            THEN [M EXCEPT !.file_pos = @ + l,
                           !.ctx.input_buffer =
                               Overwrite(@, SubSeq(M.data, M.file_pos + 1, M.file_pos + l)),
                           !.ctx.input = 0,
                           !.ctx.input_end = M.cfg.input_buffer_size]
            ELSE [M EXCEPT !.ctx.input = NULL]
    IN fill(readinto(M))

\* context_fill_buffer going back to the start of the buffer when the read
\* gave nothing.
context_fill_buffer_rewinding(M) ==
    LET fill(l) ==
            IF l > 0
            THEN [M EXCEPT !.file_pos = @ + l,
                           !.ctx.input_buffer =
                               Overwrite(@, SubSeq(M.data, M.file_pos + 1, M.file_pos + l)),
                           !.ctx.input = 0, !.ctx.input_end = l]
            ELSE [M EXCEPT !.ctx.input = 0]
    IN fill(readinto(M))

context_fill_buffer(M) ==
    LET fill(l) ==
            IF l > 0
            THEN [M EXCEPT !.file_pos = @ + l,
                           !.ctx.input_buffer =
                               Overwrite(@, SubSeq(M.data, M.file_pos + 1, M.file_pos + l)),
                           !.ctx.input = 0,
                           !.ctx.input_end = l]
            ELSE [M EXCEPT !.ctx.input = NULL]
    IN fill(readinto(M))

context_getc(M) ==
    LET read(M1) ==
            IF M1.ctx.input = NULL
            THEN [M1 EXCEPT !.ctx.c = 0]
            ELSE [M1 EXCEPT !.ctx.c = M1.ctx.input_buffer[M1.ctx.input + 1],
                            !.ctx.input = @ + 1]
    IN read(IF M.ctx.input = M.ctx.input_end THEN context_fill_buffer(M) ELSE M)

\* A call of context_getc or temp_clear that follows a loop: it is reached
\* when the loop has returned.
advance(M) == IF Faulted(M) THEN M ELSE context_getc(M)

\* ------------------------------------------------------------------ scratch
temp_clear(M) == [M EXCEPT !.ctx.temp_size = 0]
cleared(M) == IF Faulted(M) THEN M ELSE temp_clear(M)

\* context.temp[i] = b through the raw char pointer: no bounds check.  A write
\* at i >= temp_buffer_size is outside the bytearray: undefined behaviour,
\* recorded in ub; the byte lands in the memory behind the buffer.
temp_write(M, i, b) ==
    LET M1 == [M EXCEPT !.ctx.temp = [j \in (DOMAIN @) \cup {i} |-> IF j = i THEN b ELSE @[j]]]
    IN IF i >= M.cfg.temp_buffer_size THEN [M1 EXCEPT !.ub = TRUE] ELSE M1

\* A loop that appends to the scratch on every round and has no exit for the
\* byte it reads: once the source is exhausted it writes past the buffer for
\* ever.
Runaway(M) == M.ctx.c = 0 /\ M.ub

temp_append(M) ==
    LET M1 == temp_write(M, M.ctx.temp_size, M.ctx.c) IN
    [M1 EXCEPT !.ctx.temp_size = @ + 1]

temp_terminate(M) == temp_write(M, M.ctx.temp_size, 0)

\* The scratch read as a C string of temp_size bytes.
TempBytes(M) == [i \in 1..M.ctx.temp_size |-> M.ctx.temp[i - 1]]

\* ------------------------------------------------------------------ strtol
IsSpace(b) == b \in {9, 10, 11, 12, 13, 32}
IsDigit(b) == b >= 48 /\ b <= 57

RECURSIVE SkipSpace(_, _)
SkipSpace(s, i) == IF i <= Len(s) /\ IsSpace(s[i]) THEN SkipSpace(s, i + 1) ELSE i

RECURSIVE Digits(_, _, _)
\* <<value, index of the first byte that is no digit>> reading digits from i
Digits(s, i, acc) ==
    IF i <= Len(s) /\ IsDigit(s[i])
    THEN Digits(s, i + 1, acc * 10 + (s[i] - 48))
    ELSE <<acc, i>>

\* strtol(s, &str_end, 10) on the bytes s (a NUL ends the string):
\* [value, parsed] with parsed = str_end - s.
strtol(s) ==
    LET number(neg, i1, r) ==
            IF r[2] = i1
            THEN [value |-> 0, parsed |-> 0]
            ELSE [value |-> IF neg THEN 0 - r[1] ELSE r[1], parsed |-> r[2] - 1]
        digits(neg, i1) == number(neg, i1, Digits(s, i1, 0))
        sign(i0) ==
            digits(i0 <= Len(s) /\ s[i0] = 45,
                   IF i0 <= Len(s) /\ s[i0] \in {43, 45} THEN i0 + 1 ELSE i0)
    IN sign(SkipSpace(s, 1))

\* The bytes of s before its first NUL (what a C string function sees).
RECURSIVE CStrLen(_, _)
CStrLen(s, i) == IF i <= Len(s) /\ s[i] # 0 THEN CStrLen(s, i + 1) ELSE i - 1
CStr(s) == SubSeq(s, 1, CStrLen(s, 1))

\* temp_tolong: [M, success]; on success M.ctx.l holds the value.
temp_tolong(M) ==
    LET result(M1, r) ==
            IF M.ctx.temp_size = r.parsed
            THEN [M |-> [M1 EXCEPT !.ctx.l = r.value], success |-> 1]
            ELSE IF r.parsed > 0
            THEN [M |-> warn([M1 EXCEPT !.ctx.l = r.value],
                             "not all characters parsed for integer value"),
                  success |-> 1]
            ELSE [M |-> warn([M1 EXCEPT !.ctx.l = r.value],
                             "error parsing integer value"),
                  success |-> 0]
        convert(M1) == result(M1, strtol(CStr(TempBytes(M1))))
    IN IF M.ctx.temp_size = 0
       THEN [M |-> warn(M, "expected integer, found empty value"), success |-> 0]
       ELSE IF M.ctx.temp_size = 1 /\ M.ctx.temp[0] = PERIOD
       THEN [M |-> M, success |-> 0]
       ELSE convert(temp_terminate(M))

\* ------------------------------------------------------------------ strtod
\* A double is <<m, e>> for m / 10^e with no trailing zero in the fraction;
\* NAN is <<0, -1>>.  Exponents, hexadecimal, inf and nan are not read: the
\* inputs of the model hold digits, sign and one period only.
NAN == <<0, -1>>

RECURSIVE Normal(_, _)
Normal(m, e) == IF e > 0 /\ m % 10 = 0 THEN Normal(m \div 10, e - 1) ELSE <<m, e>>

strtod(s) ==
    LET signed(neg, v) == IF neg THEN <<0 - v[1], v[2]>> ELSE v
        number(neg, nint, nfrac, mantissa, stop) ==
            IF nint = 0 /\ nfrac = 0
            THEN [value |-> <<0, 0>>, parsed |-> 0]
            ELSE [value |-> signed(neg, Normal(mantissa, nfrac)), parsed |-> stop - 1]
        fraction(neg, i1, ip, dot, fp) ==
            number(neg, ip[2] - i1, IF dot THEN fp[2] - (ip[2] + 1) ELSE 0, fp[1],
                   IF dot /\ (ip[2] > i1 \/ fp[2] > ip[2] + 1) THEN fp[2] ELSE ip[2])
        period(neg, i1, ip, dot) ==
            fraction(neg, i1, ip, dot, IF dot THEN Digits(s, ip[2] + 1, ip[1]) ELSE ip)
        digits(neg, i1, ip) == period(neg, i1, ip, ip[2] <= Len(s) /\ s[ip[2]] = PERIOD)
        sign(neg, i1) == digits(neg, i1, Digits(s, i1, 0))
        space(i0) ==
            sign(i0 <= Len(s) /\ s[i0] = 45,
                 IF i0 <= Len(s) /\ s[i0] \in {43, 45} THEN i0 + 1 ELSE i0)
    IN space(SkipSpace(s, 1))

temp_todouble(M) ==
    LET result(M1, r) ==
            IF M.ctx.temp_size = r.parsed
            THEN [M |-> [M1 EXCEPT !.ctx.d = r.value], success |-> 1]
            ELSE IF r.parsed > 0
            THEN [M |-> warn([M1 EXCEPT !.ctx.d = r.value],
                             "not all characters parsed for floating value"),
                  success |-> 1]
            ELSE [M |-> warn([M1 EXCEPT !.ctx.d = r.value],
                             "error parsing floating value"),
                  success |-> 0]
        convert(M1) == result(M1, strtod(CStr(TempBytes(M1))))
    IN IF M.ctx.temp_size = 0
       THEN [M |-> warn(M, "expected floating, found empty value"), success |-> 0]
       ELSE IF M.ctx.temp_size = 1 /\ M.ctx.temp[0] = PERIOD
       THEN [M |-> M, success |-> 0]
       ELSE convert(temp_terminate(M))

\* ------------------------------------------------------------------ arrays
\* A parser's array is a function from index (a number for a 1-d view, a
\* tuple for a 2-d or 3-d view) to element.  Indexing a memoryview is
\* bounds-checked (the boundscheck=False directive of this revision sits
\* inside a string literal, lines 953-961): an index outside raises IndexError.
Store(M, slot, idx, v) ==
    IF idx \in DOMAIN M.val[slot]
    THEN [M EXCEPT !.val[slot][idx] = v]
    ELSE Fault(M, "IndexError")

\* memory[...] = context.l: the C conversion of a long to a signed integer of
\* w bits keeps the low w bits.  The numbers of the model stay below 2^31, so
\* a store of 32 or 64 bits keeps them as they are.
ToSigned(w, x) ==
    IF w >= 32 THEN x
    ELSE LET m == x % (2 ^ w) IN IF m >= 2 ^ (w - 1) THEN m - 2 ^ w ELSE m

\* `if success: memory[idx] = context.l` (context.d) after a conversion r.
store_long(r, slot, idx, width) ==
    IF r.success = 1 THEN Store(r.M, slot, idx, ToSigned(width, r.M.ctx.l)) ELSE r.M

store_double(r, slot, idx) ==
    IF r.success = 1 THEN Store(r.M, slot, idx, r.M.ctx.d) ELSE r.M

\* ------------------------------------------------------------------ CHROM, ID, REF
\* The loop of string_parse storing every byte of the field.
RECURSIVE string_parse_loop_unbounded(_, _, _, _, _)
string_parse_loop_unbounded(M, slot, itemsize, memory_index, chars_stored) ==
    IF Faulted(M) THEN M
    ELSE IF M.ctx.c = TAB THEN M
    ELSE IF M.ctx.c = 0 THEN Fault(M, "hang")
    ELSE string_parse_loop_unbounded(context_getc(Store(M, slot, memory_index, M.ctx.c)),
                                     slot, itemsize, memory_index + 1, chars_stored + 1)

RECURSIVE string_parse_loop(_, _, _, _, _)
string_parse_loop(M, slot, itemsize, memory_index, chars_stored) ==
    IF Faulted(M) THEN M
    ELSE IF M.ctx.c = TAB THEN M
    ELSE IF chars_stored < itemsize
    THEN string_parse_loop(context_getc(Store(M, slot, memory_index, M.ctx.c)),
                           slot, itemsize, memory_index + 1, chars_stored + 1)
    ELSE IF M.ctx.c = 0
    THEN Fault(M, "hang")   \* the source is exhausted and TAB never comes
    ELSE string_parse_loop(context_getc(M), slot, itemsize, memory_index, chars_stored)

string_parse(M, slot, itemsize) ==
    advance(string_parse_loop(M, slot, itemsize, M.ctx.chunk_variant_index * itemsize, 0))

\* The loop `while c != TAB: getc` of SkipChromParser and SkipPosParser.
RECURSIVE skip_to_tab(_)
skip_to_tab(M) ==
    IF M.ctx.c = TAB THEN M
    ELSE IF M.ctx.c = 0 THEN Fault(M, "hang")
    ELSE skip_to_tab(context_getc(M))

SkipChromParser_parse(M) == advance(skip_to_tab(M))

SkipPosParser_parse(M) == advance(skip_to_tab(M))

RECURSIVE SkipFieldParser_loop(_)
SkipFieldParser_loop(M) ==
    IF M.ctx.c # TAB /\ M.ctx.c # NEWLINE /\ M.ctx.c # 0
    THEN SkipFieldParser_loop(context_getc(M))
    ELSE M

\* SkipFieldParser.parse stopping on the byte that ends the field.
SkipFieldParser_parse_to_terminator(M) == SkipFieldParser_loop(M)

SkipFieldParser_parse(M) == context_getc(SkipFieldParser_loop(M))

RECURSIVE SkipAllCalldataParser_loop(_)
SkipAllCalldataParser_loop(M) ==
    IF M.ctx.c # NEWLINE /\ M.ctx.c # 0
    THEN SkipAllCalldataParser_loop(context_getc(M))
    ELSE M

SkipAllCalldataParser_parse(M) == context_getc(SkipAllCalldataParser_loop(M))

\* ------------------------------------------------------------------ POS
\* The loop `while c != TAB: temp_append; getc` of pos_parse and qual_parse.
RECURSIVE read_to_tab(_)
read_to_tab(M) ==
    IF M.ctx.c = TAB THEN M
    ELSE IF Runaway(M) THEN Fault(M, "runaway")
    ELSE read_to_tab(context_getc(temp_append(M)))

\* pos_parse without the reset of the scratch buffer.
pos_parse_keeps_scratch(M, slot) ==
    LET convert(M1) ==
            IF Faulted(M1) THEN M1
            ELSE advance(store_long(temp_tolong(M1), slot, M1.ctx.chunk_variant_index, 32))
    IN convert(read_to_tab(M))

pos_parse(M, slot) ==
    LET convert(M1) ==
            IF Faulted(M1) THEN M1
            ELSE advance(store_long(temp_tolong(M1), slot, M1.ctx.chunk_variant_index, 32))
    IN convert(read_to_tab(temp_clear(M)))

\* ------------------------------------------------------------------ ALT
\* The loop of alt_parse storing whatever the alternate's index is (the
\* loop of AltParser_parse before `alt_index < number` was added).
RECURSIVE alt_parse_loop_any_index(_, _, _, _, _, _, _, _)
alt_parse_loop_any_index(M, slot, itemsize, number, memory_offset, alt_index, memory_index, chars_stored) ==
    IF Faulted(M) THEN M
    ELSE IF M.ctx.c = TAB THEN context_getc(M)
    ELSE IF M.ctx.c = COMMA
    THEN alt_parse_loop_any_index(context_getc(M), slot, itemsize, number, memory_offset,
                                  alt_index + 1, memory_offset + ((alt_index + 1) * itemsize), 0)
    ELSE IF chars_stored < itemsize
    THEN alt_parse_loop_any_index(context_getc(Store(M, slot, memory_index, M.ctx.c)),
                                  slot, itemsize, number, memory_offset,
                                  alt_index, memory_index + 1, chars_stored + 1)
    ELSE IF M.ctx.c = 0
    THEN Fault(M, "hang")
    ELSE alt_parse_loop_any_index(context_getc(M), slot, itemsize, number, memory_offset,
                                  alt_index, memory_index, chars_stored)

RECURSIVE alt_parse_loop(_, _, _, _, _, _, _, _)
alt_parse_loop(M, slot, itemsize, number, memory_offset, alt_index, memory_index, chars_stored) ==
    IF Faulted(M) THEN M
    ELSE IF M.ctx.c = TAB THEN context_getc(M)
    ELSE IF M.ctx.c = COMMA
    THEN alt_parse_loop(context_getc(M), slot, itemsize, number, memory_offset,
                        alt_index + 1, memory_offset + ((alt_index + 1) * itemsize), 0)
    ELSE IF chars_stored < itemsize /\ alt_index < number
    THEN alt_parse_loop(context_getc(Store(M, slot, memory_index, M.ctx.c)),
                        slot, itemsize, number, memory_offset,
                        alt_index, memory_index + 1, chars_stored + 1)
    ELSE IF M.ctx.c = 0
    THEN Fault(M, "hang")
    ELSE alt_parse_loop(context_getc(M), slot, itemsize, number, memory_offset,
                        alt_index, memory_index, chars_stored)

alt_parse(M, slot, itemsize, number) ==
    LET memory_offset == M.ctx.chunk_variant_index * itemsize * number IN
    alt_parse_loop(M, slot, itemsize, number, memory_offset, 0, memory_offset, 0)

\* ------------------------------------------------------------------ QUAL
\* qual_parse leaving a missing value without the advance past the TAB (the
\* end of QualFloat32Parser_parse in the file's earlier revision).
qual_parse_no_advance(M, slot) ==
    LET convert(M1) ==
            IF Faulted(M1) THEN M1
            ELSE IF M1.ctx.temp_size = 0 \/ (M1.ctx.temp_size = 1 /\ M1.ctx.temp[0] = PERIOD)
            THEN M1
            ELSE advance(store_double(temp_todouble(M1), slot, M1.ctx.chunk_variant_index))
    IN convert(read_to_tab(temp_clear(M)))

qual_parse(M, slot) ==
    LET convert(M1) ==
            IF Faulted(M1) THEN M1
            ELSE advance(store_double(temp_todouble(M1), slot, M1.ctx.chunk_variant_index))
    IN convert(read_to_tab(temp_clear(M)))

\* ------------------------------------------------------------------ FILTER
\* 0-based position of key in the tuple keys, -1 when absent (dict.get(f, -1)).
RECURSIVE PositionFrom(_, _, _)
PositionFrom(keys, key, i) ==
    IF i > Len(keys) THEN -1
    ELSE IF keys[i] = key THEN i - 1
    ELSE PositionFrom(keys, key, i + 1)

\* filter_position taking the first configured name that f begins.
RECURSIVE PrefixFrom(_, _, _)
PrefixFrom(keys, key, i) ==
    IF i > Len(keys) THEN -1
    ELSE IF Len(key) <= Len(keys[i]) /\ SubSeq(keys[i], 1, Len(key)) = key THEN i - 1
    ELSE PrefixFrom(keys, key, i + 1)

filter_position_prefix(M, f) == PrefixFrom(M.cfg.filters, f, 1)

filter_position(M, f) == PositionFrom(M.cfg.filters, f, 1)

filter_store(M) ==
    IF M.ctx.temp_size = 0
    THEN warn(M, "empty FILTER")
    ELSE LET filter_index == filter_position(M, TempBytes(M)) IN
         IF filter_index >= 0
         THEN Store(M, <<"FILTER", 0>>, <<M.ctx.chunk_variant_index, filter_index>>, 1)
         ELSE M

RECURSIVE filter_parse_loop(_)
filter_parse_loop(M) ==
    IF Faulted(M) THEN M
    ELSE IF M.ctx.c = TAB \/ M.ctx.c = NEWLINE \/ M.ctx.c = 0
    THEN filter_store(M)
    ELSE IF M.ctx.c = COMMA \/ M.ctx.c = COLON \/ M.ctx.c = SEMICOLON
    THEN filter_parse_loop(context_getc(temp_clear(filter_store(M))))
    ELSE filter_parse_loop(context_getc(temp_append(M)))

filter_parse(M) ==
    IF M.ctx.c = PERIOD
    THEN advance(skip_to_tab(temp_clear(M)))
    ELSE advance(filter_parse_loop(temp_clear(M)))

\* ------------------------------------------------------------------ INFO
\* InfoParser.__init__: the sub-parser chosen for a key from its type and number.
InfoKind(info) ==
    IF info.type = "bool" \/ info.number = 0 THEN "flag"
    ELSE IF info.type \in {"int32", "int64"} THEN "integer"
    ELSE IF info.type \in {"float32", "float64"} THEN "floating"
    ELSE IF info.type = "S" THEN "string"
    ELSE "skip"

\* bits of an integer type name
Width(type) ==
    IF type = "int8" THEN 8
    ELSE IF type = "int16" THEN 16
    ELSE IF type = "int32" THEN 32
    ELSE 64

InfoKeys(cfg) == [i \in 1..Len(cfg.infos) |-> cfg.infos[i].key]

\* info_integer_store without the test of value_index against number.
info_integer_store_any_index(M, slot, width, number, value_index) ==
    store_long(temp_tolong(M), slot, <<M.ctx.chunk_variant_index, value_index>>, width)

info_integer_store(M, slot, width, number, value_index) ==
    IF value_index >= number THEN M
    ELSE store_long(temp_tolong(M), slot, <<M.ctx.chunk_variant_index, value_index>>,
                    width)

RECURSIVE info_integer_loop(_, _, _, _, _)
info_integer_loop(M, slot, width, number, value_index) ==
    IF Faulted(M) THEN M
    ELSE IF M.ctx.c = COMMA
    THEN info_integer_loop(
             context_getc(temp_clear(info_integer_store(M, slot, width, number, value_index))),
             slot, width, number, value_index + 1)
    ELSE IF M.ctx.c = SEMICOLON \/ M.ctx.c = TAB \/ M.ctx.c = NEWLINE \/ M.ctx.c = 0
    THEN info_integer_store(M, slot, width, number, value_index)
    ELSE info_integer_loop(context_getc(temp_append(M)), slot, width, number, value_index)

info_integer_parse(M, slot, width, number) ==
    cleared(info_integer_loop(temp_clear(M), slot, width, number, 0))

info_floating_store(M, slot, number, value_index) ==
    IF value_index >= number THEN M
    ELSE store_double(temp_todouble(M), slot, <<M.ctx.chunk_variant_index, value_index>>)

RECURSIVE info_floating_loop(_, _, _, _)
info_floating_loop(M, slot, number, value_index) ==
    IF Faulted(M) THEN M
    ELSE IF M.ctx.c = COMMA
    THEN info_floating_loop(
             context_getc(temp_clear(info_floating_store(M, slot, number, value_index))),
             slot, number, value_index + 1)
    ELSE IF M.ctx.c = SEMICOLON \/ M.ctx.c = TAB \/ M.ctx.c = NEWLINE \/ M.ctx.c = 0
    THEN info_floating_store(M, slot, number, value_index)
    ELSE info_floating_loop(context_getc(temp_append(M)), slot, number, value_index)

info_floating_parse(M, slot, number) ==
    cleared(info_floating_loop(temp_clear(M), slot, number, 0))

RECURSIVE InfoFlagParser_loop(_)
InfoFlagParser_loop(M) ==
    IF M.ctx.c # SEMICOLON /\ M.ctx.c # TAB /\ M.ctx.c # NEWLINE /\ M.ctx.c # 0
    THEN InfoFlagParser_loop(context_getc(M))
    ELSE M

\* InfoFlagParser.parse reading past the byte that ends the entry.
InfoFlagParser_parse_past_end(M, slot) ==
    LET M1 == Store(M, slot, M.ctx.chunk_variant_index, 1) IN
    IF Faulted(M1) THEN M1 ELSE context_getc(InfoFlagParser_loop(M1))

InfoFlagParser_parse(M, slot) ==
    LET M1 == Store(M, slot, M.ctx.chunk_variant_index, 1) IN
    IF Faulted(M1) THEN M1 ELSE InfoFlagParser_loop(M1)

RECURSIVE InfoStringParser_loop(_, _, _, _, _, _, _, _)
InfoStringParser_loop(M, slot, itemsize, number, memory_offset, value_index, memory_index, chars_stored) ==
    IF Faulted(M) THEN M
    ELSE IF M.ctx.c = TAB \/ M.ctx.c = SEMICOLON THEN M
    ELSE IF M.ctx.c = COMMA
    THEN InfoStringParser_loop(context_getc(M), slot, itemsize, number, memory_offset,
                               value_index + 1,
                               memory_offset + ((value_index + 1) * itemsize), 0)
    ELSE IF chars_stored < itemsize /\ value_index < number
    THEN InfoStringParser_loop(context_getc(Store(M, slot, memory_index, M.ctx.c)),
                               slot, itemsize, number, memory_offset,
                               value_index, memory_index + 1, chars_stored + 1)
    ELSE IF M.ctx.c = 0
    THEN Fault(M, "hang")
    ELSE InfoStringParser_loop(context_getc(M), slot, itemsize, number, memory_offset,
                               value_index, memory_index, chars_stored)

InfoStringParser_parse(M, slot, itemsize, number) ==
    LET memory_offset == M.ctx.chunk_variant_index * itemsize * number IN
    InfoStringParser_loop(M, slot, itemsize, number, memory_offset, 0, memory_offset, 0)

RECURSIVE SkipInfoFieldParser_parse(_)
SkipInfoFieldParser_parse(M) ==
    IF M.ctx.c # SEMICOLON /\ M.ctx.c # TAB /\ M.ctx.c # 0
    THEN SkipInfoFieldParser_parse(context_getc(M))
    ELSE M

\* self.parsers.get(key, self.skip_parser).parse() with key the scratch bytes
info_dispatch(M) ==
    LET run(kind, info, slot) ==
            IF kind = "flag" THEN InfoFlagParser_parse(M, slot)
            ELSE IF kind = "integer"
            THEN info_integer_parse(M, slot, Width(info.type), info.number)
            ELSE IF kind = "floating" THEN info_floating_parse(M, slot, info.number)
            ELSE IF kind = "string"
            THEN InfoStringParser_parse(M, slot, info.itemsize, info.number)
            ELSE SkipInfoFieldParser_parse(M)
        get(i) ==
            IF i = 0 THEN SkipInfoFieldParser_parse(M)
            ELSE run(InfoKind(M.cfg.infos[i]), M.cfg.infos[i], <<"INFO", i>>)
    IN get(PositionFrom(InfoKeys(M.cfg), TempBytes(M), 1) + 1)

\* No skipping after an empty key.
info_skip_value_none(M) == M

\* `while c != TAB and c != SEMICOLON and c != 0: getc` after an empty key
RECURSIVE info_skip_value(_)
info_skip_value(M) ==
    IF M.ctx.c # TAB /\ M.ctx.c # SEMICOLON /\ M.ctx.c # 0
    THEN info_skip_value(context_getc(M))
    ELSE M

RECURSIVE info_parse_loop(_)
info_parse_loop(M) ==
    IF Faulted(M) THEN M
    ELSE IF M.ctx.c = TAB \/ M.ctx.c = NEWLINE \/ M.ctx.c = 0
    THEN IF M.ctx.temp_size > 0 THEN info_dispatch(M) ELSE M
    ELSE IF M.ctx.c = EQUALS
    THEN IF M.ctx.temp_size > 0
         THEN info_parse_loop(cleared(info_dispatch(context_getc(M))))
         ELSE info_parse_loop(
                  info_skip_value(
                      warn(context_getc(M), "error parsing INFO field, missing key")))
    ELSE IF M.ctx.c = SEMICOLON
    THEN IF M.ctx.temp_size > 0
         THEN info_parse_loop(advance(cleared(info_dispatch(M))))
         ELSE info_parse_loop(context_getc(M))
    ELSE info_parse_loop(context_getc(temp_append(M)))

info_parse(M) ==
    IF M.ctx.c = PERIOD
    THEN advance(skip_to_tab(M))
    ELSE advance(info_parse_loop(temp_clear(M)))

\* ------------------------------------------------------------------ FORMAT
\* CalldataParser.__init__: the sub-parser chosen for a key.
CalldataKind(format) ==
    IF format.key = <<71, 84>> /\ format.type \in {"int8", "int16", "int32", "int64"}
    THEN "genotype"
    ELSE IF format.type \in {"int8", "int16", "int32", "int64"} THEN "integer"
    ELSE IF format.type \in {"float32", "float64"} THEN "floating"
    ELSE "string"

n_formats(cfg) == Len(cfg.formats)

\* The search of format_set: the first i in range(n_formats) whose parser's
\* key equals the scratch (strcmp), NULL when there is none.
RECURSIVE format_search(_, _, _)
format_search(cfg, name, i) ==
    IF i >= n_formats(cfg) THEN NULL
    ELSE IF cfg.formats[i + 1].key = name THEN i
    ELSE format_search(cfg, name, i + 1)

format_set(M, format_index) ==
    IF M.ctx.temp_size > 0
    THEN LET set(M1, parser) ==
                 IF format_index < n_formats(M1.cfg) /\ parser # NULL
                 THEN [M1 EXCEPT !.ctx.variant_calldata_parser_ptrs[format_index] = parser]
                 ELSE M1
             search(M1) == set(M1, format_search(M1.cfg, CStr(TempBytes(M1)), 0))
         IN temp_clear(search(temp_terminate(M)))
    ELSE warn(M, "empty FORMAT")

RECURSIVE format_parse_loop(_, _)
\* [M, format_index] when the loop is left
format_parse_loop(M, format_index) ==
    IF Faulted(M) THEN [M |-> M, format_index |-> format_index]
    ELSE IF M.ctx.c = TAB \/ M.ctx.c = NEWLINE
    THEN [M |-> format_set(M, format_index), format_index |-> format_index + 1]
    ELSE IF M.ctx.c = COLON
    THEN format_parse_loop(context_getc(format_set(M, format_index)), format_index + 1)
    ELSE IF Runaway(M) THEN [M |-> Fault(M, "runaway"), format_index |-> format_index]
    ELSE format_parse_loop(context_getc(temp_append(M)), format_index)

\* format_parse without the loop that sets every dispatch pointer to NULL.
format_parse_no_reset(M) ==
    LET leave(r) ==
            IF Faulted(r.M) THEN r.M
            ELSE context_getc([r.M EXCEPT !.ctx.variant_n_formats = r.format_index])
    IN leave(format_parse_loop([temp_clear(M) EXCEPT !.ctx.variant_n_formats = 0], 0))

format_parse(M) ==
    LET leave(r) ==
            IF Faulted(r.M) THEN r.M
            ELSE context_getc([r.M EXCEPT !.ctx.variant_n_formats = r.format_index])
    IN leave(format_parse_loop(
                 [temp_clear(M) EXCEPT
                     !.ctx.variant_n_formats = 0,
                     !.ctx.variant_calldata_parser_ptrs =
                         [i \in 0..(n_formats(M.cfg) - 1) |-> NULL]],
                 0))

\* ------------------------------------------------------------------ CALLDATA
RECURSIVE SkipCalldataFieldParser_parse(_)
SkipCalldataFieldParser_parse(M) ==
    IF M.ctx.c # COLON /\ M.ctx.c # TAB /\ M.ctx.c # NEWLINE /\ M.ctx.c # 0
    THEN SkipCalldataFieldParser_parse(context_getc(M))
    ELSE M

calldata_integer_store(M, slot, width, number, value_index) ==
    IF value_index >= number THEN M
    ELSE store_long(temp_tolong(M), slot,
                    <<M.ctx.chunk_variant_index, M.ctx.sample_index, value_index>>, width)

RECURSIVE calldata_integer_loop(_, _, _, _, _)
calldata_integer_loop(M, slot, width, number, value_index) ==
    IF Faulted(M) THEN M
    ELSE IF M.ctx.c = COMMA
    THEN calldata_integer_loop(
             context_getc(temp_clear(calldata_integer_store(M, slot, width, number,
                                                            value_index))),
             slot, width, number, value_index + 1)
    ELSE IF M.ctx.c = COLON \/ M.ctx.c = TAB \/ M.ctx.c = NEWLINE \/ M.ctx.c = 0
    THEN calldata_integer_store(M, slot, width, number, value_index)
    ELSE calldata_integer_loop(context_getc(temp_append(M)), slot, width, number,
                               value_index)

calldata_integer_parse(M, slot, width, number) ==
    calldata_integer_loop(temp_clear(M), slot, width, number, 0)

calldata_floating_store(M, slot, number, value_index) ==
    IF value_index >= number THEN M
    ELSE store_double(temp_todouble(M), slot,
                      <<M.ctx.chunk_variant_index, M.ctx.sample_index, value_index>>)

RECURSIVE calldata_floating_loop(_, _, _, _)
calldata_floating_loop(M, slot, number, value_index) ==
    IF Faulted(M) THEN M
    ELSE IF M.ctx.c = COMMA
    THEN calldata_floating_loop(
             context_getc(temp_clear(calldata_floating_store(M, slot, number, value_index))),
             slot, number, value_index + 1)
    ELSE IF M.ctx.c = COLON \/ M.ctx.c = TAB \/ M.ctx.c = NEWLINE \/ M.ctx.c = 0
    THEN calldata_floating_store(M, slot, number, value_index)
    ELSE calldata_floating_loop(context_getc(temp_append(M)), slot, number, value_index)

calldata_floating_parse(M, slot, number) ==
    calldata_floating_loop(temp_clear(M), slot, number, 0)

\* genotype_store without the test of allele_index against the ploidy.
genotype_store_any_index(M, slot, width, allele_index) ==
    store_long(temp_tolong(M), slot,
               <<M.ctx.chunk_variant_index, M.ctx.sample_index, allele_index>>, width)

genotype_store(M, slot, width, allele_index) ==
    IF allele_index >= M.cfg.ploidy THEN M
    ELSE store_long(temp_tolong(M), slot,
                    <<M.ctx.chunk_variant_index, M.ctx.sample_index, allele_index>>, width)

RECURSIVE genotype_parse_loop(_, _, _, _)
genotype_parse_loop(M, slot, width, allele_index) ==
    IF Faulted(M) THEN M
    ELSE IF M.ctx.c = SLASH \/ M.ctx.c = PIPE
    THEN genotype_parse_loop(
             context_getc(temp_clear(genotype_store(M, slot, width, allele_index))),
             slot, width, allele_index + 1)
    ELSE IF M.ctx.c = COLON \/ M.ctx.c = TAB \/ M.ctx.c = NEWLINE
    THEN genotype_store(M, slot, width, allele_index)
    ELSE IF Runaway(M) THEN Fault(M, "runaway")
    ELSE genotype_parse_loop(context_getc(temp_append(M)), slot, width, allele_index)

genotype_parse(M, slot, width) == genotype_parse_loop(temp_clear(M), slot, width, 0)

RECURSIVE CalldataStringParser_loop(_, _, _, _, _, _, _, _)
CalldataStringParser_loop(M, slot, itemsize, number, memory_offset, value_index, memory_index, chars_stored) ==
    IF Faulted(M) THEN M
    ELSE IF M.ctx.c = TAB \/ M.ctx.c = COLON \/ M.ctx.c = NEWLINE \/ M.ctx.c = 0 THEN M
    ELSE IF M.ctx.c = COMMA
    THEN CalldataStringParser_loop(context_getc(M), slot, itemsize, number, memory_offset,
                                   value_index + 1,
                                   memory_offset + ((value_index + 1) * itemsize), 0)
    ELSE IF chars_stored < itemsize /\ value_index < number
    THEN CalldataStringParser_loop(context_getc(Store(M, slot, memory_index, M.ctx.c)),
                                   slot, itemsize, number, memory_offset,
                                   value_index, memory_index + 1, chars_stored + 1)
    ELSE CalldataStringParser_loop(context_getc(M), slot, itemsize, number, memory_offset,
                                   value_index, memory_index, chars_stored)

CalldataStringParser_parse(M, slot, itemsize, number) ==
    LET memory_offset == (M.ctx.chunk_variant_index * M.cfg.n_samples * number * itemsize)
                         + (M.ctx.sample_index * number * itemsize)
    IN CalldataStringParser_loop(M, slot, itemsize, number, memory_offset, 0,
                                 memory_offset, 0)

\* (<Parser>parser).parse() for the parser at position i of calldata_parsers
calldata_dispatch(M, i) ==
    LET run(kind, format, slot) ==
            IF kind = "genotype" THEN genotype_parse(M, slot, Width(format.type))
            ELSE IF kind = "integer"
            THEN calldata_integer_parse(M, slot, Width(format.type), format.number)
            ELSE IF kind = "floating" THEN calldata_floating_parse(M, slot, format.number)
            ELSE CalldataStringParser_parse(M, slot, format.itemsize, format.number)
    IN run(CalldataKind(M.cfg.formats[i + 1]), M.cfg.formats[i + 1], <<"CALLDATA", i + 1>>)

\* The last branch of the loop of calldata_parse: "find parser to delegate
\* to", one invocation of a sub-parser.
calldata_delegate(M) ==
    IF M.ctx.format_index < n_formats(M.cfg)
    THEN LET parser == M.ctx.variant_calldata_parser_ptrs[M.ctx.format_index] IN
         IF parser = NULL
         THEN SkipCalldataFieldParser_parse(M)
         ELSE calldata_dispatch(M, parser)
    ELSE SkipCalldataFieldParser_parse(M)

\* The TAB branch of the loop keeping format_index.
calldata_tab_keeps_format_index(M) == context_getc([M EXCEPT !.ctx.sample_index = @ + 1])

\* The TAB and COLON branches of the loop of calldata_parse.
calldata_tab(M) == context_getc([M EXCEPT !.ctx.sample_index = @ + 1, !.ctx.format_index = 0])

calldata_colon(M) == context_getc([M EXCEPT !.ctx.format_index = @ + 1])

calldata_enter(M) == [M EXCEPT !.ctx.sample_index = 0, !.ctx.format_index = 0]

RECURSIVE calldata_parse_loop(_)
calldata_parse_loop(M) ==
    IF Faulted(M) THEN M
    ELSE IF M.ctx.c = 0 \/ M.ctx.c = NEWLINE THEN context_getc(M)
    ELSE IF M.ctx.c = TAB THEN calldata_parse_loop(calldata_tab(M))
    ELSE IF M.ctx.c = COLON THEN calldata_parse_loop(calldata_colon(M))
    ELSE calldata_parse_loop(calldata_delegate(M))

calldata_parse(M) == calldata_parse_loop(calldata_enter(M))

\* ------------------------------------------------------------------ malloc, mkchunk
Slots == {<<"CHROM", 0>>, <<"POS", 0>>, <<"ID", 0>>, <<"REF", 0>>, <<"ALT", 0>>,
          <<"QUAL", 0>>, <<"FILTER", 0>>}

AllSlots(cfg) ==
    Slots \cup {<<"INFO", i>> : i \in 1..Len(cfg.infos)}
          \cup {<<"CALLDATA", i>> : i \in 1..Len(cfg.formats)}

Flat(n, fill) == [i \in 0..(n - 1) |-> fill]
Grid2(n0, n1, fill) == [idx \in (0..(n0 - 1)) \X (0..(n1 - 1)) |-> fill]
Grid3(n0, n1, n2, fill) ==
    [idx \in (0..(n0 - 1)) \X (0..(n1 - 1)) \X (0..(n2 - 1)) |-> fill]

\* What the parser of a slot is: its kind, and the shape of one row.
SlotKind(cfg, slot) ==
    IF slot[1] = "CHROM" THEN IF cfg.chrom.on THEN "string" ELSE "skip"
    ELSE IF slot[1] = "ID" THEN IF cfg.id.on THEN "string" ELSE "skip"
    ELSE IF slot[1] = "REF" THEN IF cfg.ref.on THEN "string" ELSE "skip"
    ELSE IF slot[1] = "POS" THEN IF cfg.pos.on THEN "pos" ELSE "skip"
    ELSE IF slot[1] = "ALT" THEN IF cfg.alt.on THEN "string" ELSE "skip"
    ELSE IF slot[1] = "QUAL" THEN IF cfg.qual.on THEN "qual" ELSE "skip"
    ELSE IF slot[1] = "FILTER" THEN IF Len(cfg.filters) > 0 THEN "filter" ELSE "skip"
    ELSE IF slot[1] = "INFO" THEN InfoKind(cfg.infos[slot[2]])
    ELSE CalldataKind(cfg.formats[slot[2]])

SlotNumber(cfg, slot) ==
    IF slot[1] \in {"CHROM", "ID", "REF"} THEN 1
    ELSE IF slot[1] = "ALT" THEN cfg.alt.number
    ELSE IF slot[1] = "INFO" THEN cfg.infos[slot[2]].number
    ELSE IF slot[1] = "CALLDATA" THEN cfg.formats[slot[2]].number
    ELSE 1

SlotItemsize(cfg, slot) ==
    IF slot[1] = "CHROM" THEN cfg.chrom.itemsize
    ELSE IF slot[1] = "ID" THEN cfg.id.itemsize
    ELSE IF slot[1] = "REF" THEN cfg.ref.itemsize
    ELSE IF slot[1] = "ALT" THEN cfg.alt.itemsize
    ELSE IF slot[1] = "INFO" THEN cfg.infos[slot[2]].itemsize
    ELSE cfg.formats[slot[2]].itemsize

\* Parser.malloc of every parser class: a fresh array holding the fill.
malloc(cfg, slot) ==
    LET kind == SlotKind(cfg, slot)
        n == cfg.chunk_length
    IN IF kind = "skip" THEN <<>>
       ELSE IF kind = "pos" THEN Flat(n, -1)
       ELSE IF kind = "qual" THEN Flat(n, <<-1, 0>>)
       ELSE IF kind = "filter" THEN Grid2(n, Len(cfg.filters) + 1, 0)
       ELSE IF kind = "flag" THEN Flat(n, 0)
       ELSE IF slot[1] = "INFO"
       THEN IF kind = "integer" THEN Grid2(n, SlotNumber(cfg, slot), -1)
            ELSE IF kind = "floating" THEN Grid2(n, SlotNumber(cfg, slot), NAN)
            ELSE Flat(n * SlotNumber(cfg, slot) * SlotItemsize(cfg, slot), 0)
       ELSE IF slot[1] = "CALLDATA"
       THEN IF kind = "genotype" THEN Grid3(n, cfg.n_samples, cfg.ploidy, -1)
            ELSE IF kind = "integer" THEN Grid3(n, cfg.n_samples, SlotNumber(cfg, slot), -1)
            ELSE IF kind = "floating"
            THEN Grid3(n, cfg.n_samples, SlotNumber(cfg, slot), NAN)
            ELSE Flat(n * cfg.n_samples * SlotNumber(cfg, slot) * SlotItemsize(cfg, slot), 0)
       ELSE Flat(n * SlotNumber(cfg, slot) * SlotItemsize(cfg, slot), 0)

\* values[:limit] as a sequence of rows; squeeze drops an axis of length 1.
Squeeze(number, row) == IF number = 1 THEN row[1] ELSE row

Item(v, offset, itemsize) == [b \in 1..itemsize |-> v[offset + b - 1]]

\* The fields of a chunk: one per storing parser, and one per filter for the
\* FILTER parser (variants/FILTER_<name> is column i of its array).
ChunkFields(cfg) ==
    {slot \in AllSlots(cfg) : slot[1] # "FILTER" /\ SlotKind(cfg, slot) # "skip"}
        \cup {<<"FILTER", i>> : i \in 1..Len(cfg.filters)}

ArrayOf(field) == IF field[1] = "FILTER" THEN <<"FILTER", 0>> ELSE field

Rows(cfg, field, v, limit) ==
    LET slot == ArrayOf(field)
        kind == SlotKind(cfg, slot)
        number == SlotNumber(cfg, slot)
        itemsize == SlotItemsize(cfg, slot)
    IN IF kind \in {"pos", "qual"} THEN [r \in 1..limit |-> v[r - 1]]
       ELSE IF kind = "flag" THEN [r \in 1..limit |-> v[r - 1] # 0]
       ELSE IF kind = "filter" THEN [r \in 1..limit |-> v[<<r - 1, field[2] - 1>>] # 0]
       ELSE IF kind = "genotype"
       THEN [r \in 1..limit |-> [sa \in 1..cfg.n_samples |->
                [a \in 1..cfg.ploidy |-> v[<<r - 1, sa - 1, a - 1>>]]]]
       ELSE IF slot[1] = "CALLDATA" /\ kind = "string"
       THEN [r \in 1..limit |-> [sa \in 1..cfg.n_samples |->
                Squeeze(number, [j \in 1..number |->
                    Item(v, ((((r - 1) * cfg.n_samples) + (sa - 1)) * number + (j - 1))
                            * itemsize, itemsize)])]]
       ELSE IF slot[1] = "CALLDATA"
       THEN [r \in 1..limit |-> [sa \in 1..cfg.n_samples |->
                Squeeze(number, [j \in 1..number |-> v[<<r - 1, sa - 1, j - 1>>]])]]
       ELSE IF kind = "string" /\ slot[1] \in {"CHROM", "ID", "REF"}
       THEN [r \in 1..limit |-> Item(v, (r - 1) * itemsize, itemsize)]
       ELSE IF kind = "string"
       THEN [r \in 1..limit |->
                Squeeze(number, [j \in 1..number |->
                    Item(v, (((r - 1) * number) + (j - 1)) * itemsize, itemsize)])]
       ELSE [r \in 1..limit |-> Squeeze(number, [j \in 1..number |-> v[<<r - 1, j - 1>>]])]

\* The chunk dict filled by the mkchunk calls of iter_vcf.
mkchunk(cfg, val, limit) ==
    [field \in ChunkFields(cfg) |-> Rows(cfg, field, val[ArrayOf(field)], limit)]

mallocAll(cfg) == [slot \in AllSlots(cfg) |-> malloc(cfg, slot)]

\* ------------------------------------------------------------------ driver
\* The parsers iter_vcf sets up: the storing parser of a requested field, a
\* skipping parser otherwise.
chrom_parser(M) ==
    IF M.cfg.chrom.on THEN string_parse(M, <<"CHROM", 0>>, M.cfg.chrom.itemsize)
    ELSE SkipChromParser_parse(M)

pos_parser(M) ==
    IF M.cfg.pos.on THEN pos_parse(M, <<"POS", 0>>) ELSE SkipPosParser_parse(M)

id_parser(M) ==
    IF M.cfg.id.on THEN string_parse(M, <<"ID", 0>>, M.cfg.id.itemsize)
    ELSE SkipFieldParser_parse(M)

ref_parser(M) ==
    IF M.cfg.ref.on THEN string_parse(M, <<"REF", 0>>, M.cfg.ref.itemsize)
    ELSE SkipFieldParser_parse(M)

alt_parser(M) ==
    IF M.cfg.alt.on THEN alt_parse(M, <<"ALT", 0>>, M.cfg.alt.itemsize, M.cfg.alt.number)
    ELSE SkipFieldParser_parse(M)

qual_parser(M) ==
    IF M.cfg.qual.on THEN qual_parse(M, <<"QUAL", 0>>) ELSE SkipFieldParser_parse(M)

filter_parser(M) ==
    IF Len(M.cfg.filters) > 0 THEN filter_parse(M) ELSE SkipFieldParser_parse(M)

info_parser(M) ==
    IF Len(M.cfg.infos) > 0 THEN info_parse(M) ELSE SkipFieldParser_parse(M)

format_parser(M) ==
    IF Len(M.cfg.formats) > 0 THEN format_parse(M) ELSE SkipFieldParser_parse(M)

calldata_parser(M) ==
    IF Len(M.cfg.formats) > 0 THEN calldata_parse(M) ELSE SkipAllCalldataParser_parse(M)

\* next_variant handing out a chunk and going on with the arrays it handed out.
next_variant_same_arrays(M, cs) ==
    LET M1 == [M EXCEPT !.ctx.variant_index = @ + 1] IN
    IF M1.ctx.chunk_variant_index < M1.cfg.chunk_length - 1
    THEN [M |-> [M1 EXCEPT !.ctx.chunk_variant_index = @ + 1], chunks |-> cs]
    ELSE [M |-> [M1 EXCEPT !.ctx.chunk_variant_index = 0],
          chunks |-> Append(cs, mkchunk(M1.cfg, M1.val, M1.cfg.chunk_length))]

\* next_variant handing out a chunk one record late.
next_variant_late(M, cs) ==
    LET M1 == [M EXCEPT !.ctx.variant_index = @ + 1] IN
    IF M1.ctx.chunk_variant_index < M1.cfg.chunk_length
    THEN [M |-> [M1 EXCEPT !.ctx.chunk_variant_index = @ + 1], chunks |-> cs]
    ELSE [M |-> [M1 EXCEPT !.val = mallocAll(M1.cfg), !.ctx.chunk_variant_index = 0],
          chunks |-> Append(cs, mkchunk(M1.cfg, M1.val, M1.cfg.chunk_length))]

\* next_variant counting the records of the chunk: variant_index starts again
\* at 0 with every chunk.
next_variant_index_in_chunk(M, cs) ==
    IF M.ctx.chunk_variant_index < M.cfg.chunk_length - 1
    THEN [M |-> [M EXCEPT !.ctx.variant_index = @ + 1, !.ctx.chunk_variant_index = @ + 1],
          chunks |-> cs]
    ELSE [M |-> [M EXCEPT !.val = mallocAll(M.cfg), !.ctx.variant_index = 0,
                          !.ctx.chunk_variant_index = 0],
          chunks |-> Append(cs, mkchunk(M.cfg, M.val, M.cfg.chunk_length))]

\* "setup next variant" after the CALLDATA state: [M, chunks]
next_variant(M, cs) ==
    LET M1 == [M EXCEPT !.ctx.variant_index = @ + 1] IN
    IF M1.ctx.chunk_variant_index < M1.cfg.chunk_length - 1
    THEN [M |-> [M1 EXCEPT !.ctx.chunk_variant_index = @ + 1], chunks |-> cs]
    ELSE [M |-> [M1 EXCEPT !.val = mallocAll(M1.cfg), !.ctx.chunk_variant_index = 0],
          chunks |-> Append(cs, mkchunk(M1.cfg, M1.val, M1.cfg.chunk_length))]

\* next_state going one state too far.
next_state_skipping(M, state, cs) ==
    IF Faulted(M) THEN [M |-> M, chunks |-> cs]
    ELSE [M |-> [M EXCEPT !.ctx.state = (state + 1) % 10], chunks |-> cs]

\* `context.state = ...` after a parse() that returned: [M, chunks]
next_state(M, state, cs) ==
    IF Faulted(M) THEN [M |-> M, chunks |-> cs]
    ELSE [M |-> [M EXCEPT !.ctx.state = state], chunks |-> cs]

\* The CALLDATA branch going on to a state after CALLDATA instead of back
\* to CHROM.
end_of_record_advancing(M, cs) ==
    IF Faulted(M) THEN [M |-> M, chunks |-> cs]
    ELSE next_variant([M EXCEPT !.ctx.state = CALLDATA + 1], cs)

\* The end of the CALLDATA branch: back to CHROM, then "setup next variant".
end_of_record(M, cs) ==
    IF Faulted(M) THEN [M |-> M, chunks |-> cs]
    ELSE next_variant([M EXCEPT !.ctx.state = CHROM], cs)

\* The left-over block of the file's earlier iter_vcf: the row under
\* construction counts as a row whether or not a record reached it.
left_over_always(M, cs) ==
    LET limit == M.ctx.chunk_variant_index + 1 IN
    [M |-> [M EXCEPT !.val = mallocAll(M.cfg)],
     chunks |-> Append(cs, mkchunk(M.cfg, M.val, limit))]

\* The "left-over chunk" code after the loop.
left_over(M, cs) ==
    LET limit == M.ctx.chunk_variant_index IN
    IF limit > 0
    THEN [M |-> [M EXCEPT !.val = mallocAll(M.cfg)],
          chunks |-> Append(cs, mkchunk(M.cfg, M.val, limit))]
    ELSE [M |-> M, chunks |-> cs]

\* How a round can end: normally, in a loop that never ends, by the
\* IndexError of a bounds-checked store, or, once a write has left the
\* scratch buffer, in any way the corrupted process can.
Outcomes(M) ==
    IF M.fault = "hang" THEN {"hung"}
    ELSE IF M.fault = "runaway" THEN {"hung", "crashed"}
    ELSE IF M.fault = "IndexError" THEN {"raised"}
    ELSE IF M.ub THEN {"loop", "crashed"}
    ELSE {"loop"}

\* ParserContext.__cinit__
ParserContext(cfg, d) ==
    LET ctx0 == [input_buffer |-> [i \in 1..cfg.input_buffer_size |-> 0],
                 input |-> 0, input_end |-> NULL,
                 temp |-> [i \in 0..(cfg.temp_buffer_size - 1) |-> 0], temp_size |-> 0,
                 state |-> CHROM, c |-> 0, l |-> 0, d |-> <<0, 0>>,
                 variant_index |-> 0, chunk_variant_index |-> 0,
                 sample_index |-> 0, format_index |-> 0, variant_n_formats |-> 0,
                 variant_calldata_parser_ptrs |-> [i \in 0..(Len(cfg.formats) - 1) |-> NULL]]
    IN context_getc(context_fill_buffer(Machine(cfg, d, 0, ctx0, <<>>, <<>>, FALSE)))

Current == Machine(config, data, file_pos, context, values, warnings, ub)

\* iter_vcf up to the loop: the context, the parsers and their first arrays;
\* later holds the streams of the caller's later calls.
Start(cfg, d, later, other) ==
    LET M == ParserContext(cfg, d) IN
    /\ config = cfg
    /\ data = d
    /\ file_pos = M.file_pos
    /\ context = M.ctx
    /\ values = mallocAll(cfg)
    /\ chunks = <<>>
    /\ warnings = <<>>
    /\ ub = FALSE
    /\ pc = "loop"
    /\ calls = [pending |-> later, returned |-> <<>>]
    /\ peer = other

Begin(cfg, d, later) == Start(cfg, d, later, <<>>)

Setup(cfg, d) == Begin(cfg, d, <<>>)

\* One round of the `while True` loop in state st with c != 0; r is what the
\* state's branch leaves.
Round(st, r) ==
    /\ pc = "loop"
    /\ context.c # 0
    /\ context.state = st
    /\ file_pos' = r.M.file_pos
    /\ context' = r.M.ctx
    /\ values' = r.M.val
    /\ warnings' = r.M.warnings
    /\ ub' = r.M.ub
    /\ chunks' = r.chunks
    /\ pc' \in Outcomes(r.M)
    /\ UNCHANGED <<config, data, calls, peer>>

ChromState == Round(CHROM, next_state(chrom_parser(Current), POS, chunks))
PosState == Round(POS, next_state(pos_parser(Current), ID, chunks))
IdState == Round(ID, next_state(id_parser(Current), REF, chunks))
RefState == Round(REF, next_state(ref_parser(Current), ALT, chunks))
AltState == Round(ALT, next_state(alt_parser(Current), QUAL, chunks))
QualState == Round(QUAL, next_state(qual_parser(Current), FILTER, chunks))
FilterState == Round(FILTER, next_state(filter_parser(Current), INFO, chunks))
InfoState == Round(INFO, next_state(info_parser(Current), FORMAT, chunks))
FormatState == Round(FORMAT, next_state(format_parser(Current), CALLDATA, chunks))
CalldataState == Round(CALLDATA, end_of_record(calldata_parser(Current), chunks))

\* `if context.c == 0: break`, the left-over chunk and `return chunks`
Return ==
    /\ pc = "loop"
    /\ context.c = 0
    /\ LET leave(r) == values' = r.M.val /\ chunks' = r.chunks
       IN leave(left_over(Current, chunks))
    /\ pc' = "done"
    /\ UNCHANGED <<config, data, file_pos, context, warnings, ub, calls, peer>>

Next ==
    \/ ChromState
    \/ PosState
    \/ IdState
    \/ RefState
    \/ AltState
    \/ QualState
    \/ FilterState
    \/ InfoState
    \/ FormatState
    \/ CalldataState
    \/ Return

\* ------------------------------------------------------------------ inputs
\* Text as bytes.
RECURSIVE Join(_, _)
Join(fields, sep) ==
    IF Len(fields) = 0 THEN <<>>
    ELSE IF Len(fields) = 1 THEN fields[1]
    ELSE fields[1] \o <<sep>> \o Join(Tail(fields), sep)

RECURSIVE Concat(_)
Concat(seqs) == IF Len(seqs) = 0 THEN <<>> ELSE seqs[1] \o Concat(Tail(seqs))

\* One record: its fields joined by TAB, without the terminator.
Record(fields) == Join(fields, TAB)
Line(fields) == Record(fields) \o <<NEWLINE>>

\* All sequences over S of length lo..hi
SeqsOf(S, lo, hi) == UNION {[1..n -> S] : n \in lo..hi}

K_PASS == <<80, 65, 83, 83>>   \* "PASS"
K_q10 == <<113, 49, 48>>       \* "q10"
K_DP == <<68, 80>>             \* "DP"
K_GT == <<71, 84>>             \* "GT"
K_AF == <<65, 70>>             \* "AF"
K_DB == <<68, 66>>             \* "DB"
K_HQ == <<72, 81>>             \* "HQ"

\* 20 14370 rs6 G A 29 PASS DP=14 GT:DP 0|0:1 1|0:8
RecordA ==
    <<<<50, 48>>, <<49, 52, 51, 55, 48>>, <<114, 115, 54>>, <<71>>, <<65>>, <<50, 57>>,
      K_PASS, <<68, 80, 61, 49, 52>>, <<71, 84, 58, 68, 80>>,
      <<48, 124, 48, 58, 49>>, <<49, 124, 48, 58, 56>>>>

\* 20 17330 . T A,C 3 q10 DP=11;DB GT:DP 0|0:4 0/1:2
RecordB ==
    <<<<50, 48>>, <<49, 55, 51, 51, 48>>, <<46>>, <<84>>, <<65, 44, 67>>, <<51>>,
      K_q10, <<68, 80, 61, 49, 49, 59, 68, 66>>, <<71, 84, 58, 68, 80>>,
      <<48, 124, 48, 58, 52>>, <<48, 47, 49, 58, 50>>>>

\* X 5 . TG . . . . GT ./. 1
RecordC ==
    <<<<88>>, <<53>>, <<46>>, <<84, 71>>, <<46>>, <<46>>, <<46>>, <<46>>, <<71, 84>>,
      <<46, 47, 46>>, <<49>>>>

\* The end-to-end configuration of the specification (section 8), with ID,
\* REF, a flag and a second calldata field added.
FullConfig(chunk_length) ==
    [input_buffer_size |-> 16, cuts |-> {}, temp_buffer_size |-> 8, chunk_length |-> chunk_length,
     n_samples |-> 2, ploidy |-> 2,
     chrom |-> [on |-> TRUE, itemsize |-> 2],
     pos |-> [on |-> TRUE],
     id |-> [on |-> TRUE, itemsize |-> 3],
     ref |-> [on |-> TRUE, itemsize |-> 1],
     alt |-> [on |-> TRUE, itemsize |-> 1, number |-> 3],
     qual |-> [on |-> TRUE],
     filters |-> <<K_PASS, K_q10>>,
     infos |-> <<[key |-> K_DP, type |-> "int32", number |-> 1, itemsize |-> 0],
                 [key |-> K_DB, type |-> "bool", number |-> 0, itemsize |-> 0]>>,
     formats |-> <<[key |-> K_GT, type |-> "int8", number |-> 2, itemsize |-> 0],
                   [key |-> K_DP, type |-> "int32", number |-> 1, itemsize |-> 0]>>]

MaxRecords == 3
MaxChunkLength == 2

RecordPool == {RecordA, RecordB, RecordC}

\* Streams of well-formed, NEWLINE-terminated records.
WellFormedStreams ==
    {Concat([i \in 1..Len(rs) |-> Line(rs[i])]) : rs \in SeqsOf(RecordPool, 0, MaxRecords)}

Init ==
    \E chunk_length \in 1..MaxChunkLength, d \in WellFormedStreams :
        Setup(FullConfig(chunk_length), d)

Spec == Init /\ [][Next]_vars

\* ------------------------------------------------------------------ reading the input
\* The pieces of s between the bytes of seps: one more than s has such
\* bytes, empty pieces included.
Separators(s, seps) == {i \in 1..Len(s) : s[i] \in seps}

SeparatorAt(s, seps, k) ==
    IF k = 0 THEN 0
    ELSE IF k > Cardinality(Separators(s, seps)) THEN Len(s) + 1
    ELSE CHOOSE i \in Separators(s, seps) :
             Cardinality({j \in Separators(s, seps) : j <= i}) = k

Pieces(s, seps) ==
    [k \in 1..(Cardinality(Separators(s, seps)) + 1) |->
        SubSeq(s, SeparatorAt(s, seps, k - 1) + 1, SeparatorAt(s, seps, k) - 1)]

\* The NEWLINE-terminated records of d, and the unterminated rest.
Lines(d) == SubSeq(Pieces(d, {NEWLINE}), 1, Len(Pieces(d, {NEWLINE})) - 1)
Rest(d) == Pieces(d, {NEWLINE})[Len(Pieces(d, {NEWLINE}))]

\* Rows of field f over all chunks, in emission order.
RECURSIVE AllRows(_, _)
AllRows(cs, f) == IF Len(cs) = 0 THEN <<>> ELSE cs[1][f] \o AllRows(Tail(cs), f)

ChunkLength(chunk) == Len(chunk[<<"CHROM", 0>>])

\* What each record of the pool denotes under FullConfig: the row every
\* requested field must show for it.
RowA ==
    (<<"CHROM", 0>> :> <<50, 48>> @@ <<"POS", 0>> :> 14370 @@
     <<"ID", 0>> :> <<114, 115, 54>> @@ <<"REF", 0>> :> <<71>> @@
     <<"ALT", 0>> :> <<<<65>>, <<0>>, <<0>>>> @@ <<"QUAL", 0>> :> <<29, 0>> @@
     <<"FILTER", 1>> :> TRUE @@ <<"FILTER", 2>> :> FALSE @@
     <<"INFO", 1>> :> 14 @@ <<"INFO", 2>> :> FALSE @@
     <<"CALLDATA", 1>> :> <<<<0, 0>>, <<1, 0>>>> @@ <<"CALLDATA", 2>> :> <<1, 8>>)

RowB ==
    (<<"CHROM", 0>> :> <<50, 48>> @@ <<"POS", 0>> :> 17330 @@
     <<"ID", 0>> :> <<46, 0, 0>> @@ <<"REF", 0>> :> <<84>> @@
     <<"ALT", 0>> :> <<<<65>>, <<67>>, <<0>>>> @@ <<"QUAL", 0>> :> <<3, 0>> @@
     <<"FILTER", 1>> :> FALSE @@ <<"FILTER", 2>> :> TRUE @@
     <<"INFO", 1>> :> 11 @@ <<"INFO", 2>> :> TRUE @@
     <<"CALLDATA", 1>> :> <<<<0, 0>>, <<0, 1>>>> @@ <<"CALLDATA", 2>> :> <<4, 2>>)

RowC ==
    (<<"CHROM", 0>> :> <<88, 0>> @@ <<"POS", 0>> :> 5 @@
     <<"ID", 0>> :> <<46, 0, 0>> @@ <<"REF", 0>> :> <<84>> @@
     <<"ALT", 0>> :> <<<<46>>, <<0>>, <<0>>>> @@ <<"QUAL", 0>> :> <<-1, 0>> @@
     <<"FILTER", 1>> :> FALSE @@ <<"FILTER", 2>> :> FALSE @@
     <<"INFO", 1>> :> -1 @@ <<"INFO", 2>> :> FALSE @@
     <<"CALLDATA", 1>> :> <<<<-1, -1>>, <<1, -1>>>> @@ <<"CALLDATA", 2>> :> <<-1, -1>>)

RowOf(line) ==
    IF line = Record(RecordA) THEN RowA
    ELSE IF line = Record(RecordB) THEN RowB
    ELSE RowC

\* C1: for N well-formed NEWLINE-terminated records, the chunks concatenated
\* row-wise have exactly N rows for every requested field, and row k holds
\* the values parsed from the k-th record.
C1_RowsInInputOrder ==
    pc = "done" =>
        \A f \in ChunkFields(config) :
            AllRows(chunks, f) =
                [k \in 1..Len(Lines(data)) |-> RowOf(Lines(data)[k])[f]]

C1_Witness ==
    /\ pc = "done"
    /\ Len(Lines(data)) = 3
    /\ Len(chunks) = 2
    /\ AllRows(chunks, <<"POS", 0>>) = <<14370, 5, 17330>>

\* C2: a chunk emitted before end-of-stream has exactly chunk_length rows and
\* is emitted when its chunk_length-th record completes; at end-of-stream at
\* most one more chunk follows, holding the records since the last full chunk.
C2_ChunkLengths ==
    LET n == Len(Lines(data))
        cl == config.chunk_length
    IN /\ pc = "loop" =>
            /\ Len(chunks) = context.variant_index \div cl
            /\ \A i \in 1..Len(chunks) : \A f \in ChunkFields(config) :
                   Len(chunks[i][f]) = cl
       /\ pc = "done" =>
            /\ Len(chunks) = (n \div cl) + (IF n % cl = 0 THEN 0 ELSE 1)
            /\ \A i \in 1..Len(chunks) : \A f \in ChunkFields(config) :
                   Len(chunks[i][f]) = IF i <= n \div cl THEN cl ELSE n % cl

C2_Witness ==
    /\ pc = "done"
    /\ Len(Lines(data)) = config.chunk_length + 1
    /\ Len(chunks) = 2
    /\ \A f \in ChunkFields(config) : Len(chunks[2][f]) = 1

\* C3: when the number of records is a multiple of chunk_length (zero
\* included) no partial chunk is emitted: there are N / chunk_length chunks
\* and they hold N rows.
C3_NoTailChunk ==
    LET n == Len(Lines(data))
        cl == config.chunk_length
    IN (pc = "done" /\ n % cl = 0) =>
           /\ Len(chunks) = n \div cl
           /\ \A f \in ChunkFields(config) : Len(AllRows(chunks, f)) = n

C3_Witness ==
    /\ pc = "done"
    /\ Len(Lines(data)) = 2
    /\ config.chunk_length = 2
    /\ Len(chunks) = 1

\* ------------------------------------------------------------------ end-of-stream inside a record
MaxHead == 1

\* The proper beginnings of a record and the whole record, without NEWLINE.
Prefixes(s) == {SubSeq(s, 1, n) : n \in 1..Len(s)}

\* Streams that end inside their last record: whole records, then at least
\* one byte of a record and no NEWLINE.
TruncatedStreams ==
    {Concat([i \in 1..Len(rs) |-> Line(rs[i])]) \o p :
        rs \in SeqsOf(RecordPool, 0, MaxHead),
        p \in UNION {Prefixes(Record(r)) : r \in RecordPool}}

InitEOF ==
    \E chunk_length \in 1..MaxChunkLength, d \in TruncatedStreams :
        Setup(FullConfig(chunk_length), d)

SpecEOF == InitEOF /\ [][Next]_vars

\* The state the driver is in when the stream ends inside the last record:
\* the number of TABs read of that record.
StateAtEnd == Min(Cardinality(Separators(Rest(data), {TAB})), CALLDATA)

StateOf(f) ==
    IF f[1] = "CHROM" THEN CHROM ELSE IF f[1] = "POS" THEN POS
    ELSE IF f[1] = "ID" THEN ID ELSE IF f[1] = "REF" THEN REF
    ELSE IF f[1] = "ALT" THEN ALT ELSE IF f[1] = "QUAL" THEN QUAL
    ELSE IF f[1] = "FILTER" THEN FILTER ELSE IF f[1] = "INFO" THEN INFO
    ELSE CALLDATA

\* The row of a record none of whose fields was stored.
FillRow(f) == mkchunk(config, mallocAll(config), 1)[f][1]

\* C4: when the stream ends inside a record, end-of-stream terminates that
\* record: the call returns, the record is counted in variant_index, it is
\* the last row of the output, and the fields of the states not reached hold
\* their fill.
C4_TruncatedRecordEmitted ==
    (pc # "loop" /\ Len(Rest(data)) > 0) =>
        /\ pc = "done"
        /\ context.variant_index = Len(Lines(data)) + 1
        /\ \A f \in ChunkFields(config) :
               /\ Len(AllRows(chunks, f)) = Len(Lines(data)) + 1
               /\ StateOf(f) > StateAtEnd =>
                      AllRows(chunks, f)[Len(Lines(data)) + 1] = FillRow(f)

\* C5: no finite stream leaves the driver in a read loop that has no exit:
\* with the lookahead at 0 every loop ends and the driver reaches its exit.
C5_EveryLoopExits == pc \notin {"hung", "crashed"}

\* ------------------------------------------------------------------ the last NEWLINE left out
\* The calldata fields requested: none, numeric, string, GT alone, GT and DP.
\* HQ stands in no record: it keeps DP, second in the FORMAT of the records,
\* within the positions the dispatch vector has.
CalldataRequests ==
    {<<>>,
     <<[key |-> K_DP, type |-> "int32", number |-> 1, itemsize |-> 0],
       [key |-> K_HQ, type |-> "int32", number |-> 1, itemsize |-> 0]>>,
     <<[key |-> K_DP, type |-> "S2", number |-> 1, itemsize |-> 2],
       [key |-> K_HQ, type |-> "S2", number |-> 1, itemsize |-> 2]>>,
     <<[key |-> K_GT, type |-> "int8", number |-> 2, itemsize |-> 0]>>,
     FullConfig(1).formats}

\* Streams of whole records, the last with or without its NEWLINE.
InitNoNewline ==
    \E chunk_length \in 1..MaxChunkLength, formats \in CalldataRequests,
       rs \in SeqsOf(RecordPool, 0, MaxHead), last \in RecordPool,
       end \in {<<>>, <<NEWLINE>>} :
        Setup([FullConfig(chunk_length) EXCEPT !.formats = formats],
              Concat([i \in 1..Len(rs) |-> Line(rs[i])]) \o Record(last) \o end)

SpecNoNewline == InitNoNewline /\ [][Next]_vars

\* What a record of the pool denotes for field f under the fields requested.
AsString(v) == IF v = -1 THEN <<0, 0>> ELSE <<48 + v, 0>>

ExpectedRow(cfg, line, f) ==
    IF f[1] # "CALLDATA" THEN RowOf(line)[f]
    ELSE IF cfg.formats[f[2]].key = K_GT THEN RowOf(line)[<<"CALLDATA", 1>>]
    ELSE IF cfg.formats[f[2]].key = K_DP /\ cfg.formats[f[2]].type = "int32"
    THEN RowOf(line)[<<"CALLDATA", 2>>]
    ELSE IF cfg.formats[f[2]].key = K_DP
    THEN [sa \in 1..cfg.n_samples |-> AsString(RowOf(line)[<<"CALLDATA", 2>>][sa])]
    ELSE IF cfg.formats[f[2]].type = "int32" THEN [sa \in 1..cfg.n_samples |-> -1]
    ELSE [sa \in 1..cfg.n_samples |-> <<0, 0>>]

\* The records of d, the last one with or without its NEWLINE.
Records(d) == IF Len(Rest(d)) = 0 THEN Lines(d) ELSE Append(Lines(d), Rest(d))

\* C6: a stream whose last record has no NEWLINE gives the chunks of the same
\* stream with the NEWLINE: the call returns, and its chunks hold one row
\* for each record, the last record included, cut at chunk_length.
C6_TerminatorOptional ==
    pc # "loop" =>
        /\ pc = "done"
        /\ Len(chunks) = (Len(Records(data)) + config.chunk_length - 1) \div config.chunk_length
        /\ \A f \in ChunkFields(config) :
               AllRows(chunks, f) =
                   [k \in 1..Len(Records(data)) |-> ExpectedRow(config, Records(data)[k], f)]

\* ------------------------------------------------------------------ FORMAT lists
MaxFormatNames == 3

K_XX == <<88, 88>>             \* "XX", a key no configuration requests

\* A record with the given ALT, INFO, FORMAT and sample columns.
RecordWith(alt, info, format, sample1, sample2) ==
    <<<<50, 48>>, <<55>>, <<46>>, <<71>>, alt, <<46>>, <<46>>, info, format, sample1, sample2>>

\* The subfield a sample (1 or 2) carries for a key: GT 0|1 and 1/1, DP 7
\* and 8, XX x and y.
Subfield(key, sample) ==
    IF key = K_GT THEN (IF sample = 1 THEN <<48, 124, 49>> ELSE <<49, 47, 49>>)
    ELSE IF key = K_DP THEN (IF sample = 1 THEN <<55>> ELSE <<56>>)
    ELSE (IF sample = 1 THEN <<120>> ELSE <<121>>)

\* FORMAT lists: GT, DP and XX in any order, none twice.
FormatLists ==
    {names \in SeqsOf({K_GT, K_DP, K_XX}, 1, MaxFormatNames) :
        \A i, j \in 1..Len(names) : i # j => names[i] # names[j]}

RecordOfFormat(names) ==
    RecordWith(<<65>>, <<46>>, Join(names, COLON),
               Join([i \in 1..Len(names) |-> Subfield(names[i], 1)], COLON),
               Join([i \in 1..Len(names) |-> Subfield(names[i], 2)], COLON))

\* One record with each FORMAT list, under GT alone, DP alone, and both.
InitFormat ==
    \E names \in FormatLists,
       formats \in {<<FullConfig(1).formats[1]>>, <<FullConfig(1).formats[2]>>,
                    FullConfig(1).formats} :
        Setup([FullConfig(1) EXCEPT !.formats = formats], Line(RecordOfFormat(names)))

SpecFormat == InitFormat /\ [][Next]_vars

\* The names of the FORMAT column of the first record of d.
FormatNames(d) == Pieces(Pieces(Lines(d)[1], {TAB})[FORMAT + 1], {COLON})

\* What the samples of RecordOfFormat carry for a key.
SubfieldValues(key) == IF key = K_GT THEN <<<<0, 1>>, <<1, 1>>>> ELSE <<7, 8>>

\* C7: in a record whose FORMAT lists an unconfigured key, every configured
\* key the FORMAT lists is stored for every sample from the subfield at the
\* key's position, wherever the unconfigured key stands and however long
\* the list is; a configured key the FORMAT does not list keeps its fill.
C7_ConfiguredKeysStored ==
    pc # "loop" =>
        /\ pc = "done"
        /\ Len(chunks) = 1
        /\ \A i \in 1..Len(config.formats) :
               chunks[1][<<"CALLDATA", i>>][1] =
                   IF \E p \in 1..Len(FormatNames(data)) :
                          FormatNames(data)[p] = config.formats[i].key
                   THEN SubfieldValues(config.formats[i].key)
                   ELSE FillRow(<<"CALLDATA", i>>)

\* ------------------------------------------------------------------ genotypes
MaxPloidy == 2
MaxAlleles == 3

\* Alleles as written: 0, 12 and the missing allele.
AlleleTexts == {<<48>>, <<49, 50>>, <<46>>}

\* Genotypes of 1..MaxAlleles alleles, phased or unphased.
Genotypes ==
    {Join(alleles, sep) : alleles \in SeqsOf(AlleleTexts, 1, MaxAlleles), sep \in {SLASH, PIPE}}

\* A record whose sample `sample` carries the genotype gt, the other sample
\* 1/0; with_dp adds a DP subfield after GT.
RecordOfGenotype(gt, sample, with_dp) ==
    RecordWith(<<65>>, <<46>>,
               IF with_dp THEN Join(<<K_GT, K_DP>>, COLON) ELSE K_GT,
               (IF sample = 1 THEN gt ELSE <<49, 47, 48>>) \o (IF with_dp THEN <<COLON, 53>> ELSE <<>>),
               (IF sample = 2 THEN gt ELSE <<49, 47, 48>>) \o (IF with_dp THEN <<COLON, 54>> ELSE <<>>))

\* Two records in one chunk: the record of a genotype, then 0|1 and 1/1.
InitGenotype ==
    \E ploidy \in 1..MaxPloidy, gt \in Genotypes, sample \in 1..2, with_dp \in BOOLEAN :
        Setup([FullConfig(2) EXCEPT !.ploidy = ploidy, !.formats[1].number = ploidy],
              Line(RecordOfGenotype(gt, sample, with_dp)) \o Line(RecordOfFormat(<<K_GT>>)))

SpecGenotype == InitGenotype /\ [][Next]_vars

\* The alleles of the GT subfield (first in FORMAT) of a sample of a record,
\* and what an allele as written denotes.
GenotypeAlleles(line, sample) ==
    Pieces(Pieces(Pieces(line, {TAB})[CALLDATA + sample], {COLON})[1], {SLASH, PIPE})

AlleleValue(text) ==
    IF text = <<PERIOD>> THEN -1
    ELSE IF Len(text) = 1 THEN text[1] - 48
    ELSE ((text[1] - 48) * 10) + (text[2] - 48)

ExpectedGenotype(line, sample, ploidy) ==
    [a \in 1..ploidy |->
        IF a <= Len(GenotypeAlleles(line, sample))
        THEN AlleleValue(GenotypeAlleles(line, sample)[a])
        ELSE -1]

\* C8: calldata/GT[i, s, :] holds the first min(k, ploidy) alleles of the
\* k-allele genotype of sample s of record i in input order, -1 for a `.`
\* allele and for the slots from k on; the alleles from ploidy on are
\* dropped without a write anywhere (every other sample and record keeps
\* its own genotype, and no store leaves the array).
C8_GenotypeWithinPloidy ==
    /\ pc \in {"loop", "done"}
    /\ pc = "done" =>
           /\ Len(chunks) = 1
           /\ chunks[1][<<"CALLDATA", 1>>] =
                  [i \in 1..Len(Lines(data)) |->
                      [sa \in 1..config.n_samples |->
                          ExpectedGenotype(Lines(data)[i], sa, config.ploidy)]]

C8_Witness ==
    /\ pc = "done"
    /\ config.ploidy = 2
    /\ Len(GenotypeAlleles(Lines(data)[1], 2)) = 3
    /\ chunks[1][<<"CALLDATA", 1>>][1] = <<<<1, 0>>, <<12, 0>>>>

\* ------------------------------------------------------------------ alternates
MaxAlts == 3
MaxNumber == 2
MaxItemsize == 2

\* Alternates as written: A and CG.
AltTexts == {<<65>>, <<67, 71>>}

AltLists == {Join(alts, COMMA) : alts \in SeqsOf(AltTexts, 1, MaxAlts)}

\* Two records in one chunk, one with the ALT list and one with ALT T, in
\* either order.
InitAlt ==
    \E itemsize \in 1..MaxItemsize, number \in 1..MaxNumber, alt \in AltLists, first \in BOOLEAN :
        Setup([FullConfig(2) EXCEPT !.alt.itemsize = itemsize, !.alt.number = number],
              IF first
              THEN Line(RecordWith(alt, <<46>>, K_GT, <<48>>, <<49>>))
                       \o Line(RecordWith(<<84>>, <<46>>, K_GT, <<48>>, <<49>>))
              ELSE Line(RecordWith(<<84>>, <<46>>, K_GT, <<48>>, <<49>>))
                       \o Line(RecordWith(alt, <<46>>, K_GT, <<48>>, <<49>>)))

SpecAlt == InitAlt /\ [][Next]_vars

\* A text as an item of itemsize bytes: cut at itemsize, zero-filled after
\* its end.
Padded(text, itemsize) == [b \in 1..itemsize |-> IF b <= Len(text) THEN text[b] ELSE 0]

Alternates(line) == Pieces(Pieces(line, {TAB})[ALT + 1], {COMMA})

ExpectedAlt(line, itemsize, number) ==
    Squeeze(number,
            [j \in 1..number |->
                IF j <= Len(Alternates(line))
                THEN Padded(Alternates(line)[j], itemsize)
                ELSE Padded(<<>>, itemsize)])

\* C9: for an ALT field of m alternates under cardinality n, ALT[i, j] is
\* alternate j cut to itemsize for every j < min(m, n), the slots from m on
\* keep the empty fill, and the alternates from n on are written nowhere:
\* the ALT row of the other record of the chunk is that record's own, and no
\* store leaves the array.
C9_AltWithinNumber ==
    /\ pc \in {"loop", "done"}
    /\ pc = "done" =>
           /\ Len(chunks) = 1
           /\ chunks[1][<<"ALT", 0>>] =
                  [i \in 1..Len(Lines(data)) |->
                      ExpectedAlt(Lines(data)[i], config.alt.itemsize, config.alt.number)]

C9_Witness ==
    /\ pc = "done"
    /\ config.alt.number = 2
    /\ config.alt.itemsize = 1
    /\ Alternates(Lines(data)[1]) = <<<<67, 71>>, <<65>>, <<67, 71>>>>
    /\ chunks[1][<<"ALT", 0>>] = <<<<<<67>>, <<65>>>>, <<<<84>>, <<0>>>>>>

\* ------------------------------------------------------------------ value lists
MaxValues == 3

\* Values as written: 1, 23 and the missing value.
ValueTexts == {<<49>>, <<50, 51>>, <<46>>}

ValueLists == {Join(vs, COMMA) : vs \in SeqsOf(ValueTexts, 1, MaxValues)}

\* INFO AF and calldata HQ of one type and cardinality.
NumberConfig(type, number) ==
    [FullConfig(2) EXCEPT
        !.infos = <<[key |-> K_AF, type |-> type, number |-> number,
                     itemsize |-> IF type = "S" THEN 2 ELSE 0]>>,
        !.formats = <<[key |-> K_HQ, type |-> type, number |-> number,
                       itemsize |-> IF type = "S" THEN 2 ELSE 0]>>]

\* Record k of two: the value list stands in the cell numbered `cell` (1, 2:
\* INFO of record 1, 2; 3: sample 1 of record 1; 4: sample 2 of record 2),
\* every other cell holds 7.
RecordOfValues(list, cell, k) ==
    RecordWith(<<65>>,
               K_AF \o <<EQUALS>> \o (IF cell = k THEN list ELSE <<55>>),
               K_HQ,
               IF cell = 3 /\ k = 1 THEN list ELSE <<55>>,
               IF cell = 4 /\ k = 2 THEN list ELSE <<55>>)

InitNumber ==
    \E type \in {"int32", "float32", "S"}, number \in 1..MaxNumber,
       list \in ValueLists, cell \in 1..4 :
        Setup(NumberConfig(type, number),
              Line(RecordOfValues(list, cell, 1)) \o Line(RecordOfValues(list, cell, 2)))

SpecNumber == InitNumber /\ [][Next]_vars

\* What a value as written denotes in an array of a type, and the fill of
\* the type.
ValueOf(type, text) ==
    IF type = "S" THEN Padded(text, 2)
    ELSE IF type = "int32" THEN AlleleValue(text)
    ELSE IF text = <<PERIOD>> THEN NAN
    ELSE <<AlleleValue(text), 0>>

FillOf(type) == IF type = "S" THEN <<0, 0>> ELSE IF type = "int32" THEN -1 ELSE NAN

ExpectedValues(type, number, list) ==
    Squeeze(number,
            [j \in 1..number |->
                IF j <= Len(Pieces(list, {COMMA}))
                THEN ValueOf(type, Pieces(list, {COMMA})[j])
                ELSE FillOf(type)])

\* The value list of INFO AF of a record (after `AF=`), and of a sample.
InfoValues(line) ==
    SubSeq(Pieces(line, {TAB})[INFO + 1], Len(K_AF) + 2, Len(Pieces(line, {TAB})[INFO + 1]))

SampleValues(line, sample) == Pieces(line, {TAB})[CALLDATA + sample]

MissingCells == {"CHROM", "POS", "ID", "REF", "ALT", "QUAL", "INFO", "GT", "HQ"}

\* INFO AF and calldata HQ of one type and cardinality 1, next to GT.
MissingConfig(type) ==
    [FullConfig(2) EXCEPT
        !.infos = <<[key |-> K_AF, type |-> type, number |-> 1,
                     itemsize |-> IF type = "S" THEN 2 ELSE 0]>>,
        !.formats = <<FullConfig(2).formats[1],
                      [key |-> K_HQ, type |-> type, number |-> 1,
                       itemsize |-> IF type = "S" THEN 2 ELSE 0]>>]

\* 20 7 rs G A 5 . AF=7 GT:HQ 0/1:7 1|1:7, with text in the place of the
\* value of cell (no cell: the record as it stands).
RecordMissing(cell, text) ==
    <<IF cell = "CHROM" THEN text ELSE <<50, 48>>,
      IF cell = "POS" THEN text ELSE <<55>>,
      IF cell = "ID" THEN text ELSE <<114, 115>>,
      IF cell = "REF" THEN text ELSE <<71>>,
      IF cell = "ALT" THEN text ELSE <<65>>,
      IF cell = "QUAL" THEN text ELSE <<53>>,
      <<46>>,
      K_AF \o <<EQUALS>> \o (IF cell = "INFO" THEN text ELSE <<55>>),
      Join(<<K_GT, K_HQ>>, COLON),
      (IF cell = "GT" THEN text ELSE <<48, 47, 49>>) \o <<COLON>>
          \o (IF cell = "HQ" THEN text ELSE <<55>>),
      <<49, 124, 49, COLON, 55>>>>

\* The record with a missing value, then the record as it stands.
InitMissing ==
    \E type \in {"int32", "float32", "S"}, cell \in MissingCells, text \in {<<>>, <<PERIOD>>} :
        Setup(MissingConfig(type),
              Line(RecordMissing(cell, text)) \o Line(RecordMissing("", <<>>)))

SpecMissing == InitMissing /\ [][Next]_vars

\* The cell of the first record whose text is empty or a single period.
IsMissing(text) == text = <<>> \/ text = <<PERIOD>>

MissingCell ==
    LET fields == Pieces(Lines(data)[1], {TAB})
        sample == Pieces(fields[CALLDATA + 1], {COLON})
    IN IF IsMissing(fields[CHROM + 1]) THEN "CHROM"
       ELSE IF IsMissing(fields[POS + 1]) THEN "POS"
       ELSE IF IsMissing(fields[ID + 1]) THEN "ID"
       ELSE IF IsMissing(fields[REF + 1]) THEN "REF"
       ELSE IF IsMissing(fields[ALT + 1]) THEN "ALT"
       ELSE IF IsMissing(fields[QUAL + 1]) THEN "QUAL"
       ELSE IF IsMissing(InfoValues(Lines(data)[1])) THEN "INFO"
       ELSE IF IsMissing(sample[1]) THEN "GT"
       ELSE "HQ"

\* What the first record shows in the array of a cell, and the fill of it.
StoredAt(cell) ==
    IF cell = "CHROM" THEN chunks[1][<<"CHROM", 0>>][1]
    ELSE IF cell = "POS" THEN chunks[1][<<"POS", 0>>][1]
    ELSE IF cell = "ID" THEN chunks[1][<<"ID", 0>>][1]
    ELSE IF cell = "REF" THEN chunks[1][<<"REF", 0>>][1]
    ELSE IF cell = "ALT" THEN chunks[1][<<"ALT", 0>>][1]
    ELSE IF cell = "QUAL" THEN chunks[1][<<"QUAL", 0>>][1]
    ELSE IF cell = "INFO" THEN chunks[1][<<"INFO", 1>>][1]
    ELSE IF cell = "GT" THEN chunks[1][<<"CALLDATA", 1>>][1][1]
    ELSE chunks[1][<<"CALLDATA", 2>>][1][1]

FillAt(cell) ==
    IF cell = "CHROM" THEN Padded(<<>>, config.chrom.itemsize)
    ELSE IF cell = "POS" THEN -1
    ELSE IF cell = "ID" THEN Padded(<<>>, config.id.itemsize)
    ELSE IF cell = "REF" THEN Padded(<<>>, config.ref.itemsize)
    ELSE IF cell = "ALT" THEN [j \in 1..config.alt.number |-> Padded(<<>>, config.alt.itemsize)]
    ELSE IF cell = "QUAL" THEN <<-1, 0>>
    ELSE IF cell = "INFO" THEN FillOf(config.infos[1].type)
    ELSE IF cell = "GT" THEN [a \in 1..config.ploidy |-> -1]
    ELSE FillOf(config.formats[2].type)

\* C11: a requested field whose text in a record is empty or a single `.`
\* shows its fill for the record, whether the field is a string (CHROM, ID,
\* REF, ALT, string INFO and calldata) or a number (POS, QUAL, numeric INFO
\* and calldata, GT).
C11_MissingYieldsFill ==
    pc # "loop" =>
        /\ pc = "done"
        /\ StoredAt(MissingCell) = FillAt(MissingCell)

\* ------------------------------------------------------------------ record shapes
\* RecordA as the grammar lets it end: after INFO, after FORMAT, after the
\* sample columns.
RecordShapes == {SubSeq(RecordA, 1, INFO + 1), SubSeq(RecordA, 1, FORMAT + 1), RecordA}

\* Every field requested, or INFO, FORMAT and the samples skipped.
InitShapes ==
    \E chunk_length \in 1..MaxChunkLength, skipped \in BOOLEAN,
       rs \in SeqsOf(RecordShapes, 1, MaxHead + 1) :
        Setup(IF skipped
              THEN [FullConfig(chunk_length) EXCEPT !.infos = <<>>, !.formats = <<>>]
              ELSE FullConfig(chunk_length),
              Concat([i \in 1..Len(rs) |-> Line(rs[i])]))

SpecShapes == InitShapes /\ [][Next]_vars

\* The 1-based place in data of the lookahead byte c; Len(data) + 1 once the
\* source is exhausted.
LookaheadAt ==
    IF context.input = NULL THEN Len(data) + 1
    ELSE (file_pos - context.input_end) + context.input

\* The driver stands between two records: a CALLDATA state has completed
\* and CHROM has not yet run.
AtBoundary == pc = "loop" /\ context.state = CHROM /\ context.variant_index > 0

\* C14: between two records the lookahead is the first byte of the next
\* input line, 0 when the stream has ended: after k completed records
\* exactly k lines are consumed, whether a record ends after INFO, after
\* FORMAT or after its sample columns.
C14_BoundaryAtLineStart ==
    AtBoundary =>
        /\ LookaheadAt = SeparatorAt(data, {NEWLINE}, context.variant_index) + 1
        /\ (context.c = 0) = (context.variant_index = Len(Lines(data)))

\* ------------------------------------------------------------------ concatenation
\* The caller's next call of iter_vcf, on the next of its streams with the
\* same arguments otherwise: what the call before returned is kept.
Call ==
    /\ pc = "done"
    /\ calls.pending # <<>>
    /\ LET enter(M) ==
               /\ file_pos' = M.file_pos
               /\ context' = M.ctx
       IN enter(ParserContext(config, Head(calls.pending)))
    /\ data' = Head(calls.pending)
    /\ values' = mallocAll(config)
    /\ chunks' = <<>>
    /\ warnings' = <<>>
    /\ ub' = FALSE
    /\ pc' = "loop"
    /\ calls' = [pending |-> Tail(calls.pending), returned |-> Append(calls.returned, chunks)]
    /\ UNCHANGED <<config, peer>>

NextCalls == Next \/ Call

\* Three calls: on A, on B, and on A followed by B; A and B are streams of
\* whole records.
Stream(rs) == Concat([i \in 1..Len(rs) |-> Line(rs[i])])

InitConcat ==
    \E chunk_length \in 1..MaxChunkLength,
       A \in SeqsOf(RecordPool, 1, MaxHead + 1), B \in SeqsOf(RecordPool, 1, MaxHead) :
        Begin(FullConfig(chunk_length), Stream(A), <<Stream(B), Stream(A \o B)>>)

SpecConcat == InitConcat /\ [][NextCalls]_vars

\* C12: for streams A and B of whole records, the rows of every requested
\* field that the call on A followed by B returns are the rows the call on A
\* returns followed by the rows the call on B returns.
C12_ConcatenationOfRows ==
    (pc = "done" /\ Len(calls.returned) = 2) =>
        \A f \in ChunkFields(config) :
            AllRows(chunks, f) = AllRows(calls.returned[1], f) \o AllRows(calls.returned[2], f)

\* A of two records in one chunk and a left-over chunk for B: in the call on
\* both, B's record opens the second chunk.
C12_Witness ==
    /\ pc = "done"
    /\ Len(calls.returned) = 2
    /\ config.chunk_length = 2
    /\ AllRows(calls.returned[1], <<"POS", 0>>) = <<14370, 17330>>
    /\ AllRows(calls.returned[2], <<"POS", 0>>) = <<5>>
    /\ Len(chunks) = 2
    /\ AllRows(chunks, <<"POS", 0>>) = <<14370, 17330, 5>>
    /\ chunks[2][<<"CALLDATA", 2>>] = <<<<-1, -1>>>>

\* ------------------------------------------------------------------ the driver's counters
\* A step in which the CALLDATA branch of the loop runs to its end.
CalldataCompletes ==
    /\ pc = "loop"
    /\ context.c # 0
    /\ context.state = CALLDATA
    /\ pc' = "loop"

\* C13: chunk_variant_index stays in [0, chunk_length) in every state, and
\* variant_index never decreases: a step in which a CALLDATA state completes
\* adds exactly one to it, every other step leaves it as it is.
C13_IndicesInRange ==
    /\ [](0 <= context.chunk_variant_index /\ context.chunk_variant_index < config.chunk_length)
    /\ [][context'.variant_index =
              context.variant_index + (IF CalldataCompletes THEN 1 ELSE 0)]_vars

C13_Witness ==
    /\ pc = "done"
    /\ config.chunk_length = 2
    /\ context.variant_index = 3
    /\ context.chunk_variant_index = 1
    /\ Len(chunks) = 2

\* A step in which a state's branch of the loop runs to its end: one parser
\* invocation.
ParserReturns == pc = "loop" /\ context.c # 0 /\ pc' = "loop"

\* C15: the state starts at CHROM; every parser invocation moves it one step
\* along CHROM, POS, ID, REF, ALT, QUAL, FILTER, INFO, FORMAT, CALLDATA, CHROM
\* and nothing else moves it; variant_index changes on the step from
\* CALLDATA to CHROM and on no other.
C15_StateCycle ==
    /\ context.state = CHROM
    /\ [][/\ context'.state =
                 IF ParserReturns THEN (context.state + 1) % (CALLDATA + 1) ELSE context.state
          /\ (context'.variant_index # context.variant_index)
                 <=> (context.state = CALLDATA /\ context'.state = CHROM)]_vars

C15_Witness ==
    /\ pc = "loop"
    /\ context.state = CHROM
    /\ context.c # 0
    /\ context.variant_index = 2

\* ------------------------------------------------------------------ long tokens
\* Numbers of 7, 8 and 9 digits: one byte shorter than the scratch buffer of
\* FullConfig (temp_buffer_size 8), as long, and one byte longer.
LongTokens ==
    {<<49, 50, 51, 52, 53, 54, 55>>, <<49, 50, 51, 52, 53, 54, 55, 56>>,
     <<49, 50, 51, 52, 53, 54, 55, 56, 57>>}

\* The record with a long token in a field read through the scratch buffer,
\* then the record as it stands.
InitScratch ==
    \E cell \in {"POS", "QUAL", "INFO", "GT", "HQ"}, text \in LongTokens, chunk_length \in 1..MaxChunkLength :
        Setup([MissingConfig("int32") EXCEPT !.chunk_length = chunk_length],
              Line(RecordMissing(cell, text)) \o Line(RecordMissing("", <<>>)))

SpecScratch == InitScratch /\ [][Next]_vars

\* C16: the scratch length never exceeds temp_buffer_size and no byte is
\* written past the scratch buffer, however long a token is: temp_append and
\* temp_terminate clamp, and parsing goes on.
C16_ScratchWithinBuffer ==
    /\ context.temp_size <= config.temp_buffer_size
    /\ ~ub
    /\ pc # "crashed"

\* ------------------------------------------------------------------ the dispatch vector
\* Two records in one chunk, each with a FORMAT list of its own, under GT and
\* DP configured.
InitDispatch ==
    \E chunk_length \in 1..MaxChunkLength, first \in FormatLists, second \in FormatLists :
        Setup(FullConfig(chunk_length),
              Line(RecordOfFormat(first)) \o Line(RecordOfFormat(second)))

SpecDispatch == InitDispatch /\ [][Next]_vars

\* The names of the FORMAT column of the record the driver is in.
CurrentFormat == Pieces(Pieces(Lines(data)[context.variant_index + 1], {TAB})[FORMAT + 1], {COLON})

\* C17: when a record's CALLDATA starts, every entry of the dispatch vector
\* is NULL or the sub-parser of the key the record's own FORMAT names at that
\* position: nothing an earlier record's FORMAT resolved is left in it.
C17_DispatchOfThisRecord ==
    (pc = "loop" /\ context.state = CALLDATA) =>
        \A i \in DOMAIN context.variant_calldata_parser_ptrs :
            context.variant_calldata_parser_ptrs[i] # NULL =>
                /\ i + 1 <= Len(CurrentFormat)
                /\ CurrentFormat[i + 1] =
                       config.formats[context.variant_calldata_parser_ptrs[i] + 1].key

\* The second record's CALLDATA starts with DP unresolved after a first
\* record that resolved it at the same position.
C17_Witness ==
    /\ pc = "loop"
    /\ context.state = CALLDATA
    /\ context.variant_index = 1
    /\ FormatNames(data) = <<K_GT, K_DP>>
    /\ CurrentFormat = <<K_GT, K_XX>>
    /\ context.variant_calldata_parser_ptrs = (0 :> 0 @@ 1 :> NULL)

\* ------------------------------------------------------------------ filters
MaxFilters == 3

\* Tokens: the configured PASS and q10, and q1, which is not configured.
FilterTokens == {K_PASS, K_q10, <<113, 49>>}

\* FILTER fields: `.`, or 1..MaxFilters tokens joined by one of `,` `:` `;`.
FilterFields ==
    {<<PERIOD>>} \cup
    {Join(ts, sep) : ts \in SeqsOf(FilterTokens, 1, MaxFilters), sep \in {COMMA, COLON, SEMICOLON}}

\* RecordA with a FILTER field, before or after RecordB.
InitFilter ==
    \E field \in FilterFields, first \in BOOLEAN :
        Setup(FullConfig(2),
              IF first
              THEN Line([RecordA EXCEPT ![FILTER + 1] = field]) \o Line(RecordB)
              ELSE Line(RecordB) \o Line([RecordA EXCEPT ![FILTER + 1] = field]))

SpecFilter == InitFilter /\ [][Next]_vars

FilterTokensOf(line) == Pieces(Pieces(line, {TAB})[FILTER + 1], {COMMA, COLON, SEMICOLON})

Occurs(f, line) == \E k \in 1..Len(FilterTokensOf(line)) : FilterTokensOf(line)[k] = f

MaxPiece == 3

RefillStreams == {Stream(<<RecordC>>), Stream(<<RecordA, RecordB>>)}

\* A stream read through a buffer of 1, 5 or 16 bytes from a file that hands
\* it out whole, in two pieces, or in three with a middle piece of
\* 1..MaxPiece bytes.
InitRefill ==
    \E input_buffer_size \in {1, 5, 16}, d \in RefillStreams, gap \in 0..MaxPiece :
        \E cut \in 0..(Len(d) - 1) :
            Setup([FullConfig(2) EXCEPT !.input_buffer_size = input_buffer_size,
                                        !.cuts = {cut, cut + gap} \ {0}],
                  d)

SpecRefill == InitRefill /\ [][Next]_vars

\* C19: whatever input_buffer_size is and however the file divides the stream
\* into reads, the lookahead is the byte of the stream at the place reading
\* has reached, 0 behind its last byte, and the rows returned are those of
\* the stream's records in order.
C19_RefillsTransparent ==
    /\ pc \in {"loop", "done"}
    /\ LookaheadAt \in 1..(Len(data) + 1)
    /\ context.c = (IF LookaheadAt > Len(data) THEN 0 ELSE data[LookaheadAt])
    /\ pc = "done" =>
           /\ LookaheadAt = Len(data) + 1
           /\ \A f \in ChunkFields(config) :
                  AllRows(chunks, f) = [k \in 1..Len(Lines(data)) |-> RowOf(Lines(data)[k])[f]]

\* Two records through a 5-byte buffer from a file whose first reads give 2
\* and 3 bytes.
C19_Witness ==
    /\ pc = "done"
    /\ config.input_buffer_size = 5
    /\ config.cuts = {2, 5}
    /\ data = Stream(<<RecordA, RecordB>>)
    /\ AllRows(chunks, <<"POS", 0>>) = <<14370, 17330>>

\* ------------------------------------------------------------------ excess values
\* Record i of data has a list of more values than the cardinality of its
\* field, in INFO or in a sample.
HasExcess(i) ==
    \/ Len(Pieces(InfoValues(Lines(data)[i]), {COMMA})) > config.infos[1].number
    \/ \E sa \in 1..config.n_samples :
           Len(Pieces(SampleValues(Lines(data)[i], sa), {COMMA})) > config.formats[1].number

\* C20: a record in which an INFO or calldata field gets more values than
\* its cardinality has a warning recorded for it (the values beyond the
\* cardinality being dropped).
C20_ExcessWarned ==
    pc = "done" =>
        \A i \in 1..Len(Lines(data)) :
            HasExcess(i) => \E k \in 1..Len(warnings) : warnings[k][2] = i - 1

\* ------------------------------------------------------------------ POS texts
\* x, 12x, 1.5, the empty text, -5 and 42.
PosTexts == {<<120>>, <<49, 50, 120>>, <<49, 46, 53>>, <<>>, <<45, 53>>, <<52, 50>>}

\* The record with a POS text, then the record as it stands.
InitPos ==
    \E text \in PosTexts, chunk_length \in 1..MaxChunkLength :
        Setup([MissingConfig("int32") EXCEPT !.chunk_length = chunk_length],
              Line(RecordMissing("POS", text)) \o Line(RecordMissing("", <<>>)))

SpecPos == InitPos /\ [][Next]_vars

\* A text that is a base-10 signed integer from its first byte to its last.
IsInteger(text) ==
    LET digits == IF Len(text) > 0 /\ text[1] \in {43, 45} THEN Tail(text) ELSE text
    IN Len(digits) > 0 /\ \A i \in 1..Len(digits) : IsDigit(digits[i])

WarnedFor(i) == \E k \in 1..Len(warnings) : warnings[k][2] = i

\* C21: a POS text that is not an integer from end to end gives a warning
\* for the record and leaves POS[i] at -1; the parser goes past the TAB and
\* the record and the records after it are parsed as usual.
C21_PosFailureLeavesFill ==
    pc # "loop" =>
        /\ pc = "done"
        /\ Len(AllRows(chunks, <<"POS", 0>>)) = 2
        /\ AllRows(chunks, <<"ID", 0>>) = <<<<114, 115, 0>>, <<114, 115, 0>>>>
        /\ AllRows(chunks, <<"POS", 0>>)[2] = 7
        /\ ~IsInteger(Pieces(Lines(data)[1], {TAB})[POS + 1]) =>
               /\ AllRows(chunks, <<"POS", 0>>)[1] = -1
               /\ WarnedFor(0)

\* ------------------------------------------------------------------ QUAL texts
\* The empty text, `.`, 29 and 3.5.
QualTexts == {<<>>, <<PERIOD>>, <<50, 57>>, <<51, 46, 53>>}

\* RecordMissing with a QUAL text, before or after the record as it stands.
InitQual ==
    \E text \in QualTexts, first \in BOOLEAN, chunk_length \in 1..MaxChunkLength :
        Setup([MissingConfig("int32") EXCEPT !.chunk_length = chunk_length],
              IF first
              THEN Line(RecordMissing("QUAL", text)) \o Line(RecordMissing("", <<>>))
              ELSE Line(RecordMissing("", <<>>)) \o Line(RecordMissing("QUAL", text)))

SpecQual == InitQual /\ [][Next]_vars

\* What a QUAL text denotes: -1.0 for a missing one.
QualValue(text) ==
    IF IsMissing(text) THEN <<-1, 0>>
    ELSE IF text = <<50, 57>> THEN <<29, 0>>
    ELSE IF text = <<51, 46, 53>> THEN <<35, 1>>
    ELSE <<5, 0>>

\* The 1-based place in data of the first byte of field k (0 for CHROM) of
\* the record the driver is in, for records of eleven columns.
FieldStart(k) == SeparatorAt(data, {TAB, NEWLINE}, (context.variant_index * 11) + k) + 1

\* C22: the QUAL parser leaves the lookahead on the first byte of FILTER,
\* also for an empty QUAL and for `.`; a missing QUAL leaves QUAL[i] at -1.0
\* and every other record's QUAL is its own.
C22_QualConsumesField ==
    /\ pc \in {"loop", "done"}
    /\ (pc = "loop" /\ context.state = FILTER) => LookaheadAt = FieldStart(FILTER)
    /\ pc = "done" =>
           AllRows(chunks, <<"QUAL", 0>>) =
               [k \in 1..Len(Lines(data)) |->
                   QualValue(Pieces(Lines(data)[k], {TAB})[QUAL + 1])]

\* A `.` in the second record of a chunk whose first record has QUAL 5.
C22_Witness ==
    /\ pc = "done"
    /\ Pieces(Lines(data)[2], {TAB})[QUAL + 1] = <<PERIOD>>
    /\ Len(chunks) = 1
    /\ chunks[1][<<"QUAL", 0>>] = <<<<5, 0>>, <<-1, 0>>>>
    /\ chunks[1][<<"FILTER", 1>>] = <<FALSE, FALSE>>

\* ------------------------------------------------------------------ long strings
MaxExtra == 2

\* a, ab, abc, ...: texts up to MaxExtra bytes longer than the largest
\* itemsize of FullConfig (3, of ID).
Letters(n) == [i \in 1..n |-> 96 + i]

\* RecordMissing with a text in CHROM, ID or REF, before or after the record
\* as it stands, both in one chunk.
InitString ==
    \E cell \in {"CHROM", "ID", "REF"}, n \in 1..(3 + MaxExtra), first \in BOOLEAN :
        Setup(MissingConfig("int32"),
              IF first
              THEN Line(RecordMissing(cell, Letters(n))) \o Line(RecordMissing("", <<>>))
              ELSE Line(RecordMissing("", <<>>)) \o Line(RecordMissing(cell, Letters(n))))

SpecString == InitString /\ [][Next]_vars

StringRows(field, k, itemsize) ==
    AllRows(chunks, field) =
        [i \in 1..Len(Lines(data)) |-> Padded(Pieces(Lines(data)[i], {TAB})[k + 1], itemsize)]

\* C23: a CHROM, ID or REF text longer than the itemsize is stored cut to its
\* first itemsize bytes; its other bytes are read and stored nowhere (the
\* other record's slot holds that record's own text), and the next field is
\* parsed from its first byte.
C23_StringsTruncated ==
    /\ pc \in {"loop", "done"}
    /\ (pc = "loop" /\ context.state \in {POS, ID, REF, ALT} /\ context.c # 0) =>
           LookaheadAt = FieldStart(context.state)
    /\ pc = "done" =>
           /\ StringRows(<<"CHROM", 0>>, CHROM, config.chrom.itemsize)
           /\ StringRows(<<"ID", 0>>, ID, config.id.itemsize)
           /\ StringRows(<<"REF", 0>>, REF, config.ref.itemsize)
           /\ AllRows(chunks, <<"POS", 0>>) = <<7, 7>>

\* An ID of five bytes in the first record of a chunk, cut to three.
C23_Witness ==
    /\ pc = "done"
    /\ Pieces(Lines(data)[1], {TAB})[ID + 1] = Letters(5)
    /\ Len(chunks) = 1
    /\ chunks[1][<<"ID", 0>>] = <<<<97, 98, 99>>, <<114, 115, 0>>>>

\* ------------------------------------------------------------------ unknown INFO keys
\* The entries DP=5 and DB with XX or XX=1 before, between or after them.
InfoWithUnknown(place, valued) ==
    LET unknown == IF valued THEN K_XX \o <<EQUALS, 49>> ELSE K_XX
        known1 == K_DP \o <<EQUALS, 53>>
    IN  Join(IF place = 1 THEN <<unknown, known1, K_DB>>
             ELSE IF place = 2 THEN <<known1, unknown, K_DB>>
             ELSE <<known1, K_DB, unknown>>, SEMICOLON)

\* The INFO field ended by TAB (FORMAT and samples follow), by NEWLINE or by
\* the end of the stream; RecordA may follow a complete line.
InitUnknown ==
    \E place \in 1..3, valued \in BOOLEAN, ending \in {TAB, NEWLINE, 0},
       followed \in BOOLEAN, chunk_length \in 1..MaxChunkLength :
        LET record == RecordWith(<<65>>, InfoWithUnknown(place, valued), K_GT \o <<COLON>> \o K_DP,
                                 <<48, 124, 49, COLON, 55>>, <<49, 47, 49, COLON, 56>>)
            after == IF followed /\ ending # 0 THEN Line(RecordA) ELSE <<>>
        IN  Setup(FullConfig(chunk_length),
                  IF ending = TAB THEN Line(record) \o after
                  ELSE IF ending = NEWLINE THEN Line(SubSeq(record, 1, INFO + 1)) \o after
                  ELSE Record(SubSeq(record, 1, INFO + 1)))

SpecUnknown == InitUnknown /\ [][Next]_vars

\* The place after the byte that ends the INFO field of the first record.
AfterInfo ==
    IF Cardinality(Separators(data, {TAB, NEWLINE})) > INFO
    THEN SeparatorAt(data, {TAB, NEWLINE}, INFO + 1) + 1
    ELSE Len(data) + 1

\* The row of the record being parsed, read from the array in progress.
RowInProgress(field) ==
    Rows(config, field, values[ArrayOf(field)],
         context.chunk_variant_index + 1)[context.chunk_variant_index + 1]

\* C24: an INFO entry with a key that is not configured raises nothing and
\* is passed over: when the INFO state of the record has run, DP and DB of
\* the record are stored and the bytes consumed are those of the INFO field
\* and of the byte that ended it (`;` inside the field, TAB, NEWLINE or the
\* end of the stream after it), wherever the unknown entry stands and
\* whether or not it has a value.
C24_UnknownInfoSkipped ==
    /\ (context.state = INFO /\ context.variant_index = 0) => pc = "loop"
    /\ (pc = "loop" /\ context.state = FORMAT /\ context.variant_index = 0) =>
           /\ RowInProgress(<<"INFO", 1>>) = 5
           /\ RowInProgress(<<"INFO", 2>>) = TRUE
           /\ LookaheadAt = AfterInfo

\* ------------------------------------------------------------------ two instances
\* A call of iter_vcf that does not run: its context, parsers and arrays
\* (M), its list of chunks and its place.
Parked(id, M, cs, p) == [id |-> id, M |-> M, chunks |-> cs, pc |-> p]

\* A thread going on with the record counters of the call that ran last.
instance_context_shared_counters(running, resumed) ==
    [resumed.ctx EXCEPT !.variant_index = running.ctx.variant_index,
                        !.chunk_variant_index = running.ctx.chunk_variant_index]

\* The context a thread goes on with when it runs again: the one its own call
\* of iter_vcf constructed.
instance_context(running, resumed) == resumed.ctx

\* A thread switch between two rounds: the running call is set aside with all
\* its state, the other one goes on with its own.
Switch ==
    /\ peer # <<>>
    /\ LET resume(P) ==
               /\ config' = P.M.cfg
               /\ data' = P.M.data
               /\ file_pos' = P.M.file_pos
               /\ context' = instance_context(Current, P.M)
               /\ values' = P.M.val
               /\ warnings' = P.M.warnings
               /\ ub' = P.M.ub
               /\ chunks' = P.chunks
               /\ pc' = P.pc
       IN resume(peer[1])
    /\ peer' = <<Parked(3 - peer[1].id, Current, chunks, pc)>>
    /\ UNCHANGED calls

NextPair == Next \/ Switch

PairStreams == {Stream(<<RecordB>>), Stream(<<RecordA, RecordC>>)}

\* The second instance has its own stream, chunk length and buffer size and
\* does not request INFO.
InitPair ==
    \E d1 \in PairStreams, d2 \in PairStreams, chunk_length \in 1..MaxChunkLength :
        LET other(cfg) == Parked(2, [ParserContext(cfg, d2) EXCEPT !.val = mallocAll(cfg)],
                                 <<>>, "loop")
        IN  Start(FullConfig(chunk_length), d1, <<>>,
                  <<other([FullConfig((MaxChunkLength + 1) - chunk_length)
                               EXCEPT !.infos = <<>>, !.input_buffer_size = 5])>>)

SpecPair == InitPair /\ [][NextPair]_vars

\* The chunks iter_vcf returns for a stream of whole records when it runs
\* alone (C1, C2).
AloneChunks(cfg, d) ==
    LET n == Len(Lines(d))
        cl == cfg.chunk_length
    IN  [i \in 1..((n + cl - 1) \div cl) |->
            [f \in ChunkFields(cfg) |->
                [r \in 1..Min(cl, n - ((i - 1) * cl)) |-> RowOf(Lines(d)[((i - 1) * cl) + r])[f]]]]

IsPrefix(s, t) == Len(s) <= Len(t) /\ s = SubSeq(t, 1, Len(s))

EmitsAsAlone(cfg, d, cs, p) ==
    /\ p \in {"loop", "done"}
    /\ IsPrefix(cs, AloneChunks(cfg, d))
    /\ p = "done" => cs = AloneChunks(cfg, d)

\* C25: two calls of iter_vcf on their own streams and configurations,
\* their rounds interleaved in any order: each has emitted a prefix of the
\* chunks it returns when run alone, and all of them once it is done.
C25_InstancesIndependent ==
    /\ EmitsAsAlone(config, data, chunks, pc)
    /\ \A i \in 1..Len(peer) :
           EmitsAsAlone(peer[i].M.cfg, peer[i].M.data, peer[i].chunks, peer[i].pc)

\* Both instances done, their rounds interleaved on the way: the first with
\* two chunks, the second with one chunk of two records.
C25_Witness ==
    /\ Len(peer) = 1
    /\ pc = "done" /\ Len(chunks) = 2
    /\ peer[1].pc = "done" /\ Len(peer[1].chunks) = 1
    /\ peer[1].M.ctx.variant_index = 2

\* ------------------------------------------------------------------ fresh arrays
\* The row a fresh array of FullConfig shows for each field.
FreshRow ==
    (<<"CHROM", 0>> :> <<0, 0>> @@ <<"POS", 0>> :> -1 @@
     <<"ID", 0>> :> <<0, 0, 0>> @@ <<"REF", 0>> :> <<0>> @@
     <<"ALT", 0>> :> <<<<0>>, <<0>>, <<0>>>> @@ <<"QUAL", 0>> :> <<-1, 0>> @@
     <<"FILTER", 1>> :> FALSE @@ <<"FILTER", 2>> :> FALSE @@
     <<"INFO", 1>> :> -1 @@ <<"INFO", 2>> :> FALSE @@
     <<"CALLDATA", 1>> :> <<<<-1, -1>>, <<-1, -1>>>> @@ <<"CALLDATA", 2>> :> <<-1, -1>>)

\* Row r of the array in progress of a field.
RowInArray(field, r) == Rows(config, field, values[ArrayOf(field)], config.chunk_length)[r]

\* The rows of the arrays in progress from row `from` on hold the fill.
FreshFrom(from) ==
    \A f \in ChunkFields(config) : \A r \in from..config.chunk_length :
        RowInArray(f, r) = FreshRow[f]

\* C26: after a chunk is emitted the arrays in progress are fresh: between
\* two records every row not yet written holds the fill, so does every row
\* after the last chunk, and no row of the next chunk shows a value of an
\* earlier record; the chunks emitted so far stay as they were emitted.
C26_FreshArrays ==
    /\ [](/\ AtBoundary => FreshFrom(context.chunk_variant_index + 1)
          /\ pc = "loop" => FreshFrom(context.chunk_variant_index + 2)
          /\ pc = "done" => FreshFrom(1))
    /\ [][IsPrefix(chunks, chunks')]_vars

\* A chunk of two records has been emitted and the third record is about to
\* be parsed into arrays that hold the fill.
C26_Witness ==
    /\ AtBoundary
    /\ config.chunk_length = 2
    /\ context.variant_index = 2
    /\ context.chunk_variant_index = 0
    /\ Len(chunks) = 1
    /\ chunks[1][<<"POS", 0>>] = <<14370, 17330>>
    /\ context.c # 0
    /\ FreshFrom(1)

\* ------------------------------------------------------------------ one field per state
\* FullConfig with every fixed field skipped; the sample columns parsed or
\* skipped as well.
SkippingConfig(chunk_length, calldata) ==
    [FullConfig(chunk_length) EXCEPT
        !.chrom.on = FALSE, !.pos.on = FALSE, !.id.on = FALSE, !.ref.on = FALSE,
        !.alt.on = FALSE, !.qual.on = FALSE, !.filters = <<>>, !.infos = <<>>,
        !.formats = IF calldata THEN @ ELSE <<>>]

InitStates ==
    \E chunk_length \in 1..MaxChunkLength, rs \in SeqsOf(RecordPool, 1, MaxHead + 1),
       cfg \in {"storing", "skipping", "calldata"} :
        Setup(IF cfg = "storing" THEN FullConfig(chunk_length)
              ELSE SkippingConfig(chunk_length, cfg = "calldata"),
              Stream(rs))

SpecStates == InitStates /\ [][Next]_vars

\* The place of the first byte of the record being parsed.
LineStart == SeparatorAt(data, {NEWLINE}, context.variant_index) + 1

\* The TABs of the current record before the lookahead.
TabsConsumed ==
    Cardinality({i \in Separators(data, {TAB}) : i >= LineStart /\ i < LookaheadAt})

\* C27: in a record with its nine fixed columns and its sample columns the
\* driver is in the state of field k with exactly k TABs of the record
\* consumed and the lookahead on the first byte of field k, whether the
\* parsers store or skip: each state's parser consumes its field and one
\* terminator.
C27_StateAtFieldStart ==
    /\ pc \in {"loop", "done"}
    /\ (pc = "loop" /\ context.c # 0) =>
           /\ TabsConsumed = context.state
           /\ LookaheadAt = FieldStart(context.state)
           /\ LookaheadAt = LineStart \/ data[LookaheadAt - 1] = TAB

\* The CALLDATA state of a second record entered after nine skipped fields.
C27_Witness ==
    /\ pc = "loop"
    /\ ~config.chrom.on
    /\ context.variant_index = 1
    /\ context.state = CALLDATA
    /\ TabsConsumed = 9
    /\ data[LookaheadAt] \in {46, 48}

\* ------------------------------------------------------------------ calldata sub-parsers
\* A genotype, an integer, a floating, a string field and GT as int8, and
\* XX, which is not requested.
SubfieldConfig ==
    [FullConfig(1) EXCEPT
        !.formats = <<[key |-> K_GT, type |-> "int8", number |-> 2, itemsize |-> 0],
                      [key |-> K_DP, type |-> "int32", number |-> 1, itemsize |-> 0],
                      [key |-> K_AF, type |-> "float32", number |-> 1, itemsize |-> 0],
                      [key |-> K_HQ, type |-> "S", number |-> 1, itemsize |-> 2]>>]

SubfieldText(key) ==
    IF key = K_GT THEN <<48, 47, 49>>
    ELSE IF key = K_DP THEN <<55>>
    ELSE IF key = K_AF THEN <<49, 46, 53>>
    ELSE IF key = K_HQ THEN <<97, 98>>
    ELSE <<120>>

\* One record whose first subfield is of the given key and is ended by
\* COLON, TAB, NEWLINE or the end of the stream.
InitSubfield ==
    \E key \in {K_GT, K_DP, K_AF, K_HQ, K_XX}, ending \in {COLON, TAB, NEWLINE, 0} :
        LET second == IF key = K_DP THEN K_AF ELSE K_DP
            format == IF ending = COLON THEN key \o <<COLON>> \o second ELSE key
            sample == IF ending = COLON
                      THEN SubfieldText(key) \o <<COLON>> \o SubfieldText(second)
                      ELSE SubfieldText(key)
            record == RecordWith(<<65>>, <<46>>, format, sample, sample)
        IN  Setup(SubfieldConfig,
                  IF ending \in {COLON, TAB} THEN Line(record)
                  ELSE IF ending = NEWLINE THEN Line(SubSeq(record, 1, CALLDATA + 1))
                  ELSE Record(SubSeq(record, 1, CALLDATA + 1)))

SpecSubfield == InitSubfield /\ [][Next]_vars

\* The place of the lookahead of a machine.
PlaceOf(M) ==
    IF M.ctx.input = NULL THEN Len(M.data) + 1
    ELSE (M.file_pos - M.ctx.input_end) + M.ctx.input

\* The place of the byte that ends the subfield beginning at place i.
SubfieldEnd(i) ==
    IF \E j \in Separators(data, {COLON, TAB, NEWLINE}) : j >= i
    THEN CHOOSE j \in Separators(data, {COLON, TAB, NEWLINE}) :
             j >= i /\ \A k \in Separators(data, {COLON, TAB, NEWLINE}) : k >= i => j <= k
    ELSE Len(data) + 1

\* The CALLDATA state is about to run with the lookahead on the first byte
\* of a subfield.
AtSubfield ==
    /\ pc = "loop"
    /\ context.state = CALLDATA
    /\ context.c \notin {0, NEWLINE, TAB, COLON}

\* C28: the sub-parser the calldata loop invokes for a subfield (genotype,
\* integer, floating, string or skip) returns, with the lookahead on the
\* byte that ended the subfield (COLON, TAB, NEWLINE, or 0 at the end of the
\* stream) and at least one byte consumed.
C28_SubParserStopsAtTerminator ==
    AtSubfield =>
        LET returned(R) ==
                /\ ~Faulted(R)
                /\ R.ctx.c \in {COLON, TAB, NEWLINE, 0}
                /\ PlaceOf(R) = SubfieldEnd(LookaheadAt)
                /\ PlaceOf(R) > LookaheadAt
        IN  returned(calldata_delegate([Current EXCEPT !.ctx.sample_index = 0,
                                                       !.ctx.format_index = 0]))

\* ------------------------------------------------------------------ inside the calldata loop
\* The CALLDATA state taken one round of the loop of calldata_parse at a
\* time; pc is "calldata" inside the loop.
Within(M, cs, inside) ==
    /\ file_pos' = M.file_pos
    /\ context' = M.ctx
    /\ values' = M.val
    /\ warnings' = M.warnings
    /\ ub' = M.ub
    /\ chunks' = cs
    /\ pc' \in {IF p = "loop" /\ inside THEN "calldata" ELSE p : p \in Outcomes(M)}
    /\ UNCHANGED <<config, data, calls, peer>>

CalldataEnter ==
    /\ pc = "loop"
    /\ context.c # 0
    /\ context.state = CALLDATA
    /\ Len(config.formats) > 0
    /\ Within(calldata_enter(Current), chunks, TRUE)

CalldataTab ==
    /\ pc = "calldata"
    /\ context.c = TAB
    /\ Within(calldata_tab(Current), chunks, TRUE)

CalldataColon ==
    /\ pc = "calldata"
    /\ context.c = COLON
    /\ Within(calldata_colon(Current), chunks, TRUE)

CalldataDelegate ==
    /\ pc = "calldata"
    /\ context.c \notin {0, NEWLINE, TAB, COLON}
    /\ Within(calldata_delegate(Current), chunks, TRUE)

CalldataBreak ==
    /\ pc = "calldata"
    /\ context.c \in {0, NEWLINE}
    /\ LET leave(r) == Within(r.M, r.chunks, FALSE)
       IN  leave(end_of_record(context_getc(Current), chunks))

NextSamples ==
    \/ ChromState
    \/ PosState
    \/ IdState
    \/ RefState
    \/ AltState
    \/ QualState
    \/ FilterState
    \/ InfoState
    \/ FormatState
    \/ CalldataEnter
    \/ CalldataTab
    \/ CalldataColon
    \/ CalldataDelegate
    \/ CalldataBreak
    \/ Return

InitSamples ==
    \E chunk_length \in 1..MaxChunkLength, rs \in SeqsOf(RecordPool, 1, MaxHead + 1) :
        Setup(FullConfig(chunk_length), Stream(rs))

SpecSamples == InitSamples /\ [][NextSamples]_vars

\* The TABs of the sample columns of the current record before the lookahead.
SampleTabs ==
    Cardinality({i \in Separators(data, {TAB}) :
                    i >= FieldStart(CALLDATA) /\ i < LookaheadAt})

\* The calldata arrays in progress differ from what they are after the step
\* at most in the row of the current record and the column of sample sa.
StoresOnlyAt(sa) ==
    \A i \in 1..Len(config.formats) : \A r \in 1..config.chunk_length :
        \A s \in 1..config.n_samples :
            (r # context.chunk_variant_index + 1 \/ s # sa + 1) =>
                Rows(config, <<"CALLDATA", i>>, values'[<<"CALLDATA", i>>], config.chunk_length)[r][s]
                    = RowInArray(<<"CALLDATA", i>>, r)[s]

\* C29: in the CALLDATA of a record sample_index starts at 0 and is the
\* number of TABs consumed in the sample columns; a TAB adds one to it and
\* sets format_index to 0, a COLON adds one to format_index, a sub-parser
\* changes neither and stores nothing outside the current record's cells
\* of sample sample_index.
C29_SampleIndexCountsTabs ==
    /\ [](pc = "calldata" => context.sample_index = SampleTabs)
    /\ [][/\ (pc = "loop" /\ pc' = "calldata") =>
                 context'.sample_index = 0 /\ context'.format_index = 0
          /\ (pc = "calldata" /\ pc' = "calldata" /\ context.c = TAB) =>
                 /\ context'.sample_index = context.sample_index + 1
                 /\ context'.format_index = 0
          /\ (pc = "calldata" /\ pc' = "calldata" /\ context.c = COLON) =>
                 /\ context'.sample_index = context.sample_index
                 /\ context'.format_index = context.format_index + 1
          /\ (pc = "calldata" /\ pc' = "calldata" /\ context.c \notin {TAB, COLON}) =>
                 /\ context'.sample_index = context.sample_index
                 /\ context'.format_index = context.format_index
          /\ (pc = "calldata" /\ pc' = "calldata") => StoresOnlyAt(context.sample_index)]_vars

\* The second subfield of the second sample of a second record has been
\* stored.
C29_Witness ==
    /\ pc = "calldata"
    /\ context.variant_index = 1
    /\ context.sample_index = 1
    /\ context.format_index = 1
    /\ context.c = NEWLINE
    /\ RowInProgress(<<"CALLDATA", 2>>) = <<4, 2>>

\* ------------------------------------------------------------------ extra subfields
\* FORMAT lists no longer than the two configured fields of FullConfig.
ShortFormatLists == {names \in FormatLists : Len(names) <= Len(FullConfig(1).formats)}

\* The record of a FORMAT list with `extra` more subfields, each `9`, in
\* both sample columns.
RecordWithExtra(names, extra) ==
    LET sample(k) == Join([i \in 1..(Len(names) + extra) |->
                              IF i <= Len(names) THEN Subfield(names[i], k) ELSE <<57>>],
                          COLON)
    IN  RecordWith(<<65>>, <<46>>, Join(names, COLON), sample(1), sample(2))

\* RecordA, whose FORMAT is GT:DP, then the record with the extra subfields.
InitExtra ==
    \E names \in ShortFormatLists, extra \in 1..MaxExtra, chunk_length \in 1..MaxChunkLength :
        Setup(FullConfig(chunk_length), Stream(<<RecordA, RecordWithExtra(names, extra)>>))

SpecExtra == InitExtra /\ [][NextSamples]_vars

\* The FORMAT names of record k of the stream.
FormatNamesOf(k) == Pieces(Pieces(Lines(data)[k], {TAB})[FORMAT + 1], {COLON})

Declares(k, key) == \E p \in 1..Len(FormatNamesOf(k)) : FormatNamesOf(k)[p] = key

\* C30: in a sample column with more subfields than the FORMAT has names, a
\* round of the calldata loop at a position at or past the number of names
\* writes to no array, and the record's row holds the values of the declared
\* subfields for the keys the FORMAT names and the fill for the others.
C30_ExtraSubfieldsSkipped ==
    /\ [](/\ pc \in {"loop", "calldata", "done"}
          /\ pc = "done" =>
                 \A i \in 1..Len(config.formats) :
                     AllRows(chunks, <<"CALLDATA", i>>)[2] =
                         IF Declares(2, config.formats[i].key)
                         THEN SubfieldValues(config.formats[i].key)
                         ELSE FillRow(<<"CALLDATA", i>>))
    /\ [][(/\ pc = "calldata"
           /\ pc' = "calldata"
           /\ context.format_index >= context.variant_n_formats) => values' = values]_vars

\* Both extra subfields of the second sample of a record with FORMAT GT
\* have been passed: GT is stored, DP holds its fill.
C30_Witness ==
    /\ pc = "calldata"
    /\ context.variant_index = 1
    /\ context.variant_n_formats = 1
    /\ context.sample_index = 1
    /\ context.format_index = 2
    /\ context.c = NEWLINE
    /\ RowInProgress(<<"CALLDATA", 1>>) = <<<<0, 1>>, <<1, 1>>>>
    /\ RowInProgress(<<"CALLDATA", 2>>) = <<-1, -1>>

\* ------------------------------------------------------------------ INFO flags
MaxEntries == 2

\* DB, DB=1, DP=5, XX=DB (DB as the value of another key) and DBX (a key
\* that begins with DB).
FlagEntries ==
    {K_DB, K_DB \o <<EQUALS, 49>>, K_DP \o <<EQUALS, 53>>, K_XX \o <<EQUALS>> \o K_DB,
     K_DB \o <<88>>}

\* RecordB, whose INFO is DP=11;DB, then a record with 1..MaxEntries entries
\* ended by TAB, by NEWLINE or by the end of the stream.
InitFlag ==
    \E entries \in SeqsOf(FlagEntries, 1, MaxEntries), ending \in {TAB, NEWLINE, 0},
       chunk_length \in 1..MaxChunkLength :
        LET record == RecordWith(<<65>>, Join(entries, SEMICOLON), K_GT \o <<COLON>> \o K_DP,
                                 <<48, 124, 49, COLON, 55>>, <<49, 47, 49, COLON, 56>>)
        IN  Setup(FullConfig(chunk_length),
                  Line(RecordB) \o
                  (IF ending = TAB THEN Line(record)
                   ELSE IF ending = NEWLINE THEN Line(SubSeq(record, 1, INFO + 1))
                   ELSE Record(SubSeq(record, 1, INFO + 1))))

SpecFlag == InitFlag /\ [][Next]_vars

\* The keys of the INFO entries of line k of the stream.
InfoKeysOf(k) ==
    LET entries == Pieces(Pieces(Pieces(data, {NEWLINE})[k], {TAB})[INFO + 1], {SEMICOLON})
    IN  {Pieces(entries[i], {EQUALS})[1] : i \in 1..Len(entries)}

\* The place after the byte that ends the INFO field of the current record.
AfterInfoField ==
    IF Cardinality(Separators(data, {TAB, NEWLINE})) >= (context.variant_index * 11) + FORMAT
    THEN FieldStart(FORMAT)
    ELSE Len(data) + 1

\* C31: when the INFO state of a record has run, the flag DB of the record
\* is true exactly when DB is the key of one of its INFO entries, bare or
\* with a value; DP is stored when it is a key, also after a DB entry, and
\* the bytes consumed are those of the INFO field and the one that ends it.
C31_FlagIffKeyOccurs ==
    /\ (context.state = INFO /\ context.variant_index = 1) => pc = "loop"
    /\ (pc = "loop" /\ context.state = FORMAT /\ context.variant_index = 1) =>
           /\ RowInProgress(<<"INFO", 2>>) = (K_DB \in InfoKeysOf(2))
           /\ RowInProgress(<<"INFO", 1>>) = (IF K_DP \in InfoKeysOf(2) THEN 5 ELSE -1)
           /\ LookaheadAt = AfterInfoField

\* DB before DP=5 in a record ended by NEWLINE: both stored.
C31_Witness ==
    /\ pc = "loop"
    /\ context.state = FORMAT
    /\ context.variant_index = 1
    /\ Pieces(Pieces(data, {NEWLINE})[2], {TAB})[INFO + 1] = K_DB \o <<SEMICOLON>> \o K_DP \o <<EQUALS, 53>>
    /\ Len(Pieces(Pieces(data, {NEWLINE})[2], {TAB})) = INFO + 1
    /\ RowInProgress(<<"INFO", 2>>) = TRUE
    /\ RowInProgress(<<"INFO", 1>>) = 5

\* ------------------------------------------------------------------ INFO entries without a key
\* =9, =DB and = (entries with an empty key), DP=5 and DB.
KeylessEntries == {<<EQUALS, 57>>, <<EQUALS>> \o K_DB, <<EQUALS>>}

\* RecordB, then a record whose INFO has 1..MaxEntries entries, one at least
\* without a key, then RecordA.
InitKeyless ==
    \E entries \in SeqsOf(KeylessEntries \cup {K_DP \o <<EQUALS, 53>>, K_DB}, 1, MaxEntries),
       chunk_length \in 1..MaxChunkLength :
        /\ \E i \in 1..Len(entries) : entries[i] \in KeylessEntries
        /\ Setup(FullConfig(chunk_length),
                 Stream(<<RecordB,
                          RecordWith(<<65>>, Join(entries, SEMICOLON), K_GT \o <<COLON>> \o K_DP,
                                     <<48, 124, 49, COLON, 55>>, <<49, 47, 49, COLON, 56>>),
                          RecordA>>))

SpecKeyless == InitKeyless /\ [][Next]_vars

\* The INFO entries of line k of the stream that begin with `=`.
KeylessOf(k) ==
    LET entries == Pieces(Pieces(Pieces(data, {NEWLINE})[k], {TAB})[INFO + 1], {SEMICOLON})
    IN  {i \in 1..Len(entries) : entries[i] # <<>> /\ entries[i][1] = EQUALS}

MissingKeyWarnings(i) ==
    {k \in 1..Len(warnings) :
        warnings[k] = <<"error parsing INFO field, missing key", i>>}

\* C32: an INFO entry `=value` gives one warning and no write; the value is
\* passed over up to the `;` or TAB that ends it and the other entries of
\* the record are stored: when the INFO state has run, DP and DB show what
\* the entries with these keys say, and the lookahead is on the first byte
\* of FORMAT.
C32_EmptyKeyWarnedAndSkipped ==
    /\ pc \in {"loop", "done"}
    /\ (pc = "loop" /\ context.state = FORMAT /\ context.variant_index = 1) =>
           /\ RowInProgress(<<"INFO", 2>>) = (K_DB \in InfoKeysOf(2))
           /\ RowInProgress(<<"INFO", 1>>) = (IF K_DP \in InfoKeysOf(2) THEN 5 ELSE -1)
           /\ LookaheadAt = FieldStart(FORMAT)
           /\ Cardinality(MissingKeyWarnings(1)) = Cardinality(KeylessOf(2))
    /\ pc = "done" =>
           /\ Len(warnings) = Cardinality(KeylessOf(2))
           /\ AllRows(chunks, <<"INFO", 1>>) =
                  <<11, IF K_DP \in InfoKeysOf(2) THEN 5 ELSE -1, 14>>
           /\ AllRows(chunks, <<"INFO", 2>>) = <<TRUE, K_DB \in InfoKeysOf(2), FALSE>>

\* =DB before DP=5: one warning, DP stored, DB false.
C32_Witness ==
    /\ pc = "done"
    /\ Pieces(Pieces(data, {NEWLINE})[2], {TAB})[INFO + 1] = <<EQUALS>> \o K_DB \o <<SEMICOLON>> \o K_DP \o <<EQUALS, 53>>
    /\ warnings = <<<<"error parsing INFO field, missing key", 1>>>>
    /\ AllRows(chunks, <<"INFO", 1>>) = <<11, 5, 14>>
    /\ AllRows(chunks, <<"INFO", 2>>) = <<TRUE, FALSE, FALSE>>

\* ------------------------------------------------------------------ the exhausted source
\* The empty stream, whole records, and a record cut at any byte; read
\* through a buffer of 1, 5 or 16 bytes, with every field stored or skipped.
ExhaustStreams ==
    {<<>>, Stream(<<RecordC>>), Stream(<<RecordC, RecordC>>)} \cup Prefixes(Record(RecordC))

InitExhaust ==
    \E d \in ExhaustStreams, input_buffer_size \in {1, 5, 16}, skipping \in BOOLEAN :
        Setup([(IF skipping THEN SkippingConfig(1, FALSE) ELSE FullConfig(1))
                   EXCEPT !.input_buffer_size = input_buffer_size], d)

SpecExhaust == InitExhaust /\ [][Next]_vars

\* n calls of context_getc.
RECURSIVE Getc(_, _)
Getc(M, n) == IF n = 0 THEN M ELSE Getc(context_getc(M), n - 1)

\* The source is exhausted and the lookahead is the sentinel.
AtEnd(M) == M.ctx.c = 0 /\ M.ctx.input = NULL /\ M.file_pos = Len(M.data)

\* Every byte of the stream has been handed out and read: the lookahead is
\* its last byte, or the read that gave nothing has happened.
Drained ==
    file_pos = Len(data) /\ (context.input = NULL \/ context.input = context.input_end)

MaxLater == 3

\* C33: a read that gave no byte is the last thing the source delivers: once
\* every byte of the stream is read, each of the next calls of context_getc
\* leaves the lookahead at 0 and the source exhausted; in a run, once the
\* source is exhausted it stays so with the lookahead at 0; an empty stream
\* gives no record and no chunk.
C33_ExhaustionAbsorbing ==
    /\ [](/\ context.input = NULL => AtEnd(Current)
          /\ Drained => \A later \in 1..MaxLater : AtEnd(Getc(Current, later))
          /\ data = <<>> =>
                 /\ pc \in {"loop", "done"}
                 /\ AtEnd(Current)
                 /\ context.variant_index = 0
                 /\ chunks = <<>>)
    /\ [][context.input = NULL =>
              /\ context'.input = NULL
              /\ context'.c = 0
              /\ file_pos' = file_pos]_vars

\* The call on the empty stream has returned.
C33_Witness ==
    /\ data = <<>>
    /\ pc = "done"
    /\ context.input = NULL
    /\ context.c = 0
    /\ chunks = <<>>

\* ------------------------------------------------------------------ fewer fields requested
\* A second call on the same stream starts when the first has returned.
Turn ==
    /\ pc = "done"
    /\ Len(peer) = 1
    /\ peer[1].pc # "done"
    /\ Switch

NextTurns == Next \/ Turn

\* FullConfig with the calldata fields `formats` only; with `fixed` false
\* the columns before FORMAT are not requested either.
SubsetConfig(formats, fixed) ==
    IF fixed THEN [FullConfig(1) EXCEPT !.formats = formats]
    ELSE [SkippingConfig(1, TRUE) EXCEPT !.formats = formats]

\* One record with each FORMAT list, parsed with GT and DP and every other
\* field requested, then with some of these fields.
InitSubset ==
    \E names \in FormatLists, fixed \in BOOLEAN,
       formats \in {<<FullConfig(1).formats[1]>>, <<FullConfig(1).formats[2]>>,
                    FullConfig(1).formats} :
        LET d == Line(RecordOfFormat(names))
            other(cfg) == Parked(2, [ParserContext(cfg, d) EXCEPT !.val = mallocAll(cfg)],
                                 <<>>, "loop")
        IN  Start(FullConfig(1), d, <<>>, <<other(SubsetConfig(formats, fixed))>>)

SpecSubset == InitSubset /\ [][NextTurns]_vars

\* The field of configuration F that has the name field g has in G.
SameField(G, F, g) ==
    IF g[1] = "CALLDATA"
    THEN <<"CALLDATA", CHOOSE j \in 1..Len(F.formats) : F.formats[j].key = G.formats[g[2]].key>>
    ELSE IF g[1] = "INFO"
    THEN <<"INFO", CHOOSE j \in 1..Len(F.infos) : F.infos[j].key = G.infos[g[2]].key>>
    ELSE IF g[1] = "FILTER"
    THEN <<"FILTER", CHOOSE j \in 1..Len(F.filters) : F.filters[j] = G.filters[g[2]]>>
    ELSE g

\* C34: what a call returns for a field does not depend on the other fields
\* requested: the chunks of the call with fewer fields are the chunks of
\* the call with GT, DP and every other field, kept to the fields of the
\* first.
C34_FieldsIndependent ==
    (pc = "done" /\ Len(peer) = 1 /\ peer[1].pc = "done") =>
        /\ Len(chunks) = Len(peer[1].chunks)
        /\ \A i \in 1..Len(chunks) : \A g \in ChunkFields(config) :
               chunks[i][g] = peer[1].chunks[i][SameField(config, peer[1].M.cfg, g)]

\* ------------------------------------------------------------------ surplus sample columns
MaxSurplus == 1

\* One calldata field requested: GT, DP, or HQ as strings of two bytes.
SurplusConfig(key, chunk_length) ==
    [FullConfig(chunk_length) EXCEPT
        !.formats = <<IF key = K_GT THEN FullConfig(1).formats[1]
                      ELSE IF key = K_DP THEN FullConfig(1).formats[2]
                      ELSE [key |-> K_HQ, type |-> "S", number |-> 1, itemsize |-> 2]>>]

\* A record whose FORMAT is the key and that has n sample columns.
RecordOfSamples(key, n) ==
    SubSeq(RecordWith(<<65>>, <<46>>, key, <<>>, <<>>), 1, CALLDATA)
        \o [i \in 1..n |-> IF key = K_GT THEN <<48, 47, 49>>
                           ELSE IF key = K_DP THEN <<55>>
                           ELSE <<96 + i, 96 + i>>]

\* Two records with n_samples (2) sample columns or up to MaxSurplus more.
InitSurplus ==
    \E key \in {K_GT, K_DP, K_HQ}, chunk_length \in 1..MaxChunkLength,
       n1 \in 2..(2 + MaxSurplus), n2 \in 2..(2 + MaxSurplus) :
        Setup(SurplusConfig(key, chunk_length),
              Stream(<<RecordOfSamples(key, n1), RecordOfSamples(key, n2)>>))

SpecSurplus == InitSurplus /\ [][Next]_vars

C36_IndexDecomposition ==
    pc = "loop" =>
        /\ context.variant_index =
               (config.chunk_length * Len(chunks)) + context.chunk_variant_index
        /\ (context.chunk_variant_index = 0)
               = (context.variant_index % config.chunk_length = 0)

\* Three records parsed with chunk_length 2: one chunk out, one record in
\* the arrays in progress.
C36_Witness ==
    /\ pc = "loop"
    /\ config.chunk_length = 2
    /\ context.variant_index = 3
    /\ context.chunk_variant_index = 1
    /\ Len(chunks) = 1
    /\ context.c = 0

\* ------------------------------------------------------------------ the ten states
ParserState == {CHROM, POS, ID, REF, ALT, QUAL, FILTER, INFO, FORMAT, CALLDATA}

\* C37: the driver's state is always one of the ten states CHROM ..
\* CALLDATA, so a round of the loop always finds its branch and the branch
\* raising 'unexpected parser state' is never taken.
C37_StateInRange ==
    /\ context.state \in ParserState
    /\ (pc = "loop" /\ context.c # 0) =>
           \E st \in ParserState : ENABLED Round(st, [M |-> Current, chunks |-> chunks])

\* The state has gone round the ten states twice and stands at CHROM with
\* a third record to read.
C37_Witness ==
    /\ pc = "loop"
    /\ context.c # 0
    /\ context.state = CHROM
    /\ context.variant_index = 2

\* ------------------------------------------------------------------ genotype widths
GenotypeTypes == {"int8", "int16", "int32", "int64"}

\* Allele indices as written, at and around the largest values of 8 and 16
\* bits: 0, 127, 128, 255, 256, 32767, 32768.
WideAlleleTexts ==
    {<<48>>, <<49, 50, 55>>, <<49, 50, 56>>, <<50, 53, 53>>, <<50, 53, 54>>,
     <<51, 50, 55, 54, 55>>, <<51, 50, 55, 54, 56>>}

\* One record whose first sample carries the genotype a/b, under
\* calldata/GT of each type.
InitWidth ==
    \E type \in GenotypeTypes, a \in WideAlleleTexts, b \in WideAlleleTexts,
       chunk_length \in 1..MaxChunkLength :
        Setup([FullConfig(chunk_length) EXCEPT !.formats[1].type = type],
              Line(RecordOfGenotype(Join(<<a, b>>, SLASH), 1, FALSE)))

SpecWidth == InitWidth /\ [][Next]_vars

\* The number a run of decimal digits denotes.
RECURSIVE DecimalOf(_)
DecimalOf(text) ==
    IF text = <<>> THEN 0
    ELSE (10 * DecimalOf(SubSeq(text, 1, Len(text) - 1))) + (text[Len(text)] - 48)

\* C38: whatever the width of calldata/GT, an allele written as the
\* non-negative integer a is stored as a: the stored allele is not
\* negative and is not the fill -1.
C38_AlleleStoredAsParsed ==
    pc = "done" =>
        \A a \in 1..config.ploidy :
            LET stored == chunks[1][<<"CALLDATA", 1>>][1][1][a] IN
            /\ stored = DecimalOf(GenotypeAlleles(Lines(data)[1], 1)[a])
            /\ stored >= 0

====
